---- MODULE Spec2Model ----
(***************************************************************************)
(* Haunteed: floor assembly (package floor), ghost movement (package       *)
(* dweller), the play model's Update (package play) and the application's  *)
(* Update with its floor cache (package app).                              *)
(***************************************************************************)
EXTENDS Integers, Sequences, FiniteSets, TLC

(***************************************************************************)
(* Positions, directions                                                    *)
(***************************************************************************)
Pos(x, y) == [X |-> x, Y |-> y]

\* a nil *maze.Point
NoPoint == [X |-> -1, Y |-> -1]

Directions == <<"Up", "Down", "Left", "Right">>

abs(n) == IF n < 0 THEN -n ELSE n

manhattan(a, b) == abs(a.X - b.X) + abs(a.Y - b.Y)

Max(a, b) == IF a > b THEN a ELSE b

\* F applied to the value of v (of v and w), which is computed once
Bind(v, F(_)) == CHOOSE r \in {F(x) : x \in {v}} : TRUE

Bind2(v, w, F(_, _)) == CHOOSE r \in {F(x, y) : x \in {v}, y \in {w}} : TRUE

(***************************************************************************)
(* The maze (library github.com/vinser/maze): one fixed test topology, a   *)
(* ring corridor around the ghosts' den, with the den gate on top.         *)
(***************************************************************************)
DenWidth == 5
DenHeight == 3

TestMaze ==
  << <<"Wall", "Wall", "Wall", "Wall", "Wall", "Wall", "Wall", "Wall", "Wall">>,
     <<"Wall", "Path", "Path", "Path", "Path", "Path", "Path", "Path", "Wall">>,
     <<"Wall", "Path", "Wall", "Wall", "Path", "Wall", "Wall", "Path", "Wall">>,
     <<"Wall", "Path", "Wall", "Path", "Path", "Path", "Wall", "Path", "Wall">>,
     <<"Wall", "Path", "Wall", "Wall", "Wall", "Wall", "Wall", "Path", "Wall">>,
     <<"Wall", "Path", "Path", "Path", "Path", "Path", "Path", "Path", "Wall">>,
     <<"Wall", "Wall", "Wall", "Wall", "Wall", "Wall", "Wall", "Wall", "Wall">> >>

Height == Len(TestMaze)
Width == Len(TestMaze[1])

Xs == 0 .. (Width - 1)
Ys == 0 .. (Height - 1)
Cells == {Pos(x, y) : x \in Xs, y \in Ys}

InBounds(x, y) == x >= 0 /\ x < Width /\ y >= 0 /\ y < Height

\* the cells where the generator may put the entry and the exit
Ports == <<Pos(1, 1), Pos(Width - 2, 1), Pos(Width - 2, Height - 2), Pos(1, Height - 2)>>

IsInsideDen(p) ==
  /\ p.X >= (Width - DenWidth) \div 2
  /\ p.X < (Width - DenWidth) \div 2 + DenWidth
  /\ p.Y >= (Height - DenHeight) \div 2
  /\ p.Y < (Height - DenHeight) \div 2 + DenHeight

\* Generate(seed, startPoint, endPoint, ...): a required point is honoured,
\* a missing one is chosen from the seed; entry and exit are distinct.
MazeStart(seed, startPoint, endPoint) ==
  IF startPoint # NoPoint THEN startPoint
  ELSE LET c == Ports[(seed % Len(Ports)) + 1]
       IN  IF c # endPoint THEN c ELSE Ports[((seed + 3) % Len(Ports)) + 1]

MazeEnd(seed, startPoint, endPoint) ==
  IF endPoint # NoPoint THEN endPoint
  ELSE LET s == MazeStart(seed, startPoint, endPoint)
           c == Ports[((seed + 1) % Len(Ports)) + 1]
       IN  IF c # s THEN c ELSE Ports[((seed + 2) % Len(Ports)) + 1]

MazeGenerate(seed, startPoint, endPoint) ==
  LET s == MazeStart(seed, startPoint, endPoint)
      e == MazeEnd(seed, startPoint, endPoint)
  IN  [start |-> s,
       end   |-> e,
       cells |-> [y \in Ys |-> [x \in Xs |->
                   IF Pos(x, y) = s THEN "Start"
                   ELSE IF Pos(x, y) = e THEN "End"
                   ELSE TestMaze[y + 1][x + 1]]]]

\* the next cell of the ring corridor, clockwise
RingNext(p) ==
  IF p.Y = 1 /\ p.X < Width - 2 THEN Pos(p.X + 1, p.Y)
  ELSE IF p.X = Width - 2 /\ p.Y < Height - 2 THEN Pos(p.X, p.Y + 1)
  ELSE IF p.Y = Height - 2 /\ p.X > 1 THEN Pos(p.X - 1, p.Y)
  ELSE Pos(p.X, p.Y - 1)

RECURSIVE RingWalk(_, _)
RingWalk(p, e) == IF p = e THEN <<p>> ELSE <<p>> \o RingWalk(RingNext(p), e)

\* Solve(): the path from the entry to the exit, both included
Solve(m) == RingWalk(m.start, m.end)

(***************************************************************************)
(* math/rand: a generator private to its owner, seeded once, advanced by   *)
(* every draw (a linear congruential stand-in for the library's source).   *)
(***************************************************************************)
RngMod == 16

NewSource(seed) == seed % RngMod

RngStep(s) == (5 * s + 3) % RngMod

\* rng.Intn(n): the value drawn in state s (the state after it is RngStep(s))
Intn(s, n) == RngStep(s) % n

Swap(seq, i, j) == [seq EXCEPT ![i] = seq[j], ![j] = seq[i]]

\* rng.Shuffle: Fisher-Yates from the last index down, 1-based index i
RECURSIVE Shuffle(_, _, _)
Shuffle(seq0, s, i) ==
  Bind(seq0, LAMBDA seq :
    IF i <= 1 THEN seq
    ELSE Shuffle(Swap(seq, i, Intn(s, i) + 1), RngStep(s), i - 1))

(***************************************************************************)
(* package floor                                                            *)
(***************************************************************************)
ItemTypes == {"Wall", "CrumblingWall", "Dot", "Empty", "PowerPellet", "Start", "End", "Fuse"}

ModeEasy == "easy"
ModeNoisy == "noisy"
ModeCrazy == "crazy"

\* all cells in scan order (row by row, left to right)
CellSeq == [k \in 1 .. (Width * Height) |-> Pos((k - 1) % Width, (k - 1) \div Width)]

SetItem(items, p, t) == [items EXCEPT ![p.Y][p.X] = t]

RECURSIVE SetItems(_, _, _, _)
SetItems(items, ps, n, t) ==
  IF n = 0 THEN items ELSE SetItems(SetItem(items, ps[n], t), ps, n - 1, t)

newItems(m) ==
  [y \in Ys |-> [x \in Xs |->
     CASE m.cells[y][x] = "Wall"  -> "Wall"
       [] m.cells[y][x] = "Path"  -> "Empty"
       [] m.cells[y][x] = "Start" -> "Start"
       [] m.cells[y][x] = "End"   -> "End"
       [] OTHER                   -> "Wall"]]

SeqRange(seq) == {seq[i] : i \in 1 .. Len(seq)}

placeDots(items0, solution) ==
  Bind2(items0, SeqRange(solution), LAMBDA items, path :
    [y \in Ys |-> [x \in Xs |->
       IF items[y][x] = "Empty" /\ Pos(x, y) \in path
       THEN "Dot" ELSE items[y][x]]])

\* candidates[i] = candidates[last]; candidates = candidates[:last]
RemoveAt(seq, i) ==
  SubSeq([seq EXCEPT ![i] = seq[Len(seq)]], 1, Len(seq) - 1)

\* the minimum distance from c to the pellets already chosen (math.MaxInt32 if none)
MinDistToPellets(c, pellets) ==
  IF pellets = <<>> THEN 2147483647
  ELSE LET ds == {manhattan(c, pellets[i]) : i \in 1 .. Len(pellets)}
       IN  CHOOSE d \in ds : \A e \in ds : d <= e

\* the first index whose score is strictly greater than all before it and
\* not smaller than any after it (the scan keeps the first maximum)
FirstMaxCenter(cands) ==
  LET c == Pos(Width \div 2, Height \div 2)
  IN  CHOOSE i \in 1 .. Len(cands) :
        /\ \A j \in 1 .. Len(cands) : manhattan(cands[j], c) <= manhattan(cands[i], c)
        /\ \A j \in 1 .. (i - 1) : manhattan(cands[j], c) < manhattan(cands[i], c)

\* the scan of the greedy loop keeping the first minimum
FirstMinMinDist(cands, pellets) ==
  CHOOSE i \in 1 .. Len(cands) :
    /\ \A j \in 1 .. Len(cands) :
         MinDistToPellets(cands[j], pellets) >= MinDistToPellets(cands[i], pellets)
    /\ \A j \in 1 .. (i - 1) :
         MinDistToPellets(cands[j], pellets) > MinDistToPellets(cands[i], pellets)

FirstMaxMinDist(cands, pellets) ==
  CHOOSE i \in 1 .. Len(cands) :
    /\ \A j \in 1 .. Len(cands) :
         MinDistToPellets(cands[j], pellets) <= MinDistToPellets(cands[i], pellets)
    /\ \A j \in 1 .. (i - 1) :
         MinDistToPellets(cands[j], pellets) < MinDistToPellets(cands[i], pellets)

RECURSIVE GreedyPellets(_, _, _)
GreedyPellets(cands0, pellets0, requested) ==
  Bind2(cands0, pellets0, LAMBDA cands, pellets :
    IF Len(pellets) >= requested \/ cands = <<>> THEN pellets
    ELSE LET i == FirstMaxMinDist(cands, pellets)
         IN  GreedyPellets(RemoveAt(cands, i), Append(pellets, cands[i]), requested))

PelletCandidates(items) ==
  SelectSeq(CellSeq, LAMBDA p : items[p.Y][p.X] = "Empty" /\ ~IsInsideDen(p))

\* pelletLocations: the cells chosen, in the order they are chosen
PelletLocations(items, requested) ==
  Bind(PelletCandidates(items), LAMBDA cands :
    IF requested <= 0 \/ cands = <<>> THEN <<>>
    ELSE LET req   == IF requested > Len(cands) THEN Len(cands) ELSE requested
             first == FirstMaxCenter(cands)
         IN  GreedyPellets(RemoveAt(cands, first), <<cands[first]>>, req))

placePowerPellets(items0, requested) ==
  Bind(items0, LAMBDA items :
    Bind(PelletLocations(items, requested), LAMBDA locs :
      SetItems(items, locs, Len(locs), "PowerPellet")))

\* rng is the generator's state when the call is made
placeFuse(items0, rng) ==
  Bind(items0, LAMBDA items :
    Bind(PelletCandidates(items), LAMBDA cands :
      IF Len(cands) > 0 THEN SetItem(items, cands[Intn(rng, Len(cands)) + 1], "Fuse")
      ELSE items))

\* the candidates of placeCrumblingWalls with one open neighbour required
\* along an axis instead of two
CrumblingCandidatesOneSided(items) ==
  SelectSeq(CellSeq, LAMBDA p :
    /\ p.Y >= 1 /\ p.Y < Height - 1 /\ p.X >= 1 /\ p.X < Width - 1
    /\ items[p.Y][p.X] = "Wall"
    /\ \/ items[p.Y - 1][p.X] # "Wall" \/ items[p.Y + 1][p.X] # "Wall"
       \/ items[p.Y][p.X - 1] # "Wall" \/ items[p.Y][p.X + 1] # "Wall")

CrumblingCandidates(items) ==
  SelectSeq(CellSeq, LAMBDA p :
    /\ p.Y >= 1 /\ p.Y < Height - 1 /\ p.X >= 1 /\ p.X < Width - 1
    /\ items[p.Y][p.X] = "Wall"
    /\ \/ items[p.Y - 1][p.X] # "Wall" /\ items[p.Y + 1][p.X] # "Wall"
       \/ items[p.Y][p.X - 1] # "Wall" /\ items[p.Y][p.X + 1] # "Wall")

placeCrumblingWalls(items0, rng, requested) ==
  Bind(items0, LAMBDA items :
    Bind(CrumblingCandidates(items), LAMBDA cands :
      Bind(Shuffle(cands, rng, Len(cands)), LAMBDA shuf :
        LET n == IF requested < Len(shuf) THEN requested ELSE Len(shuf)
        IN  SetItems(items, shuf, Max(n, 0), "CrumblingWall"))))

defaultGhostTickInterval == 500
minGhostTickInterval == 400
stepGhostTickInterval == 10

\* ghostInterval with the floor index taken as it is
ghostIntervalSigned(floor) ==
  LET calculated == defaultGhostTickInterval - floor * stepGhostTickInterval
  IN  IF calculated < minGhostTickInterval THEN minGhostTickInterval ELSE calculated

\* milliseconds
ghostInterval(floor) ==
  LET calculated == defaultGhostTickInterval - abs(floor) * stepGhostTickInterval
  IN  IF calculated < minGhostTickInterval THEN minGhostTickInterval ELSE calculated

BaseWidth == 21
BaseHeight == 15
MinPellets == 4
MinCrumbling == 5

\* floor.New that hands the generator no required entry point
FloorNewFreeStart(index, seed0, startPoint, endPoint, gameMode) ==
  LET seed    == IF seed0 = 0 THEN index ELSE seed0
      rng0    == NewSource(seed)
      area    == Width * Height
      base    == BaseWidth * BaseHeight
      pellets == Max(MinPellets, ((Intn(rng0, 2) + 4) * area) \div base)
      rng1    == RngStep(rng0)
      crumbs  == Max(MinCrumbling, (MinCrumbling * area) \div base)
  IN  Bind(MazeGenerate(seed, NoPoint, endPoint), LAMBDA m :
        Bind(Solve(m), LAMBDA sol :
          Bind(placePowerPellets(placeDots(newItems(m), SubSeq(sol, 2, Len(sol) - 1)),
                                 pellets),
               LAMBDA items2 :
            LET items3 == IF gameMode = ModeCrazy THEN placeFuse(items2, rng1)
                          ELSE items2
                rng2   == IF gameMode = ModeCrazy /\ Len(PelletCandidates(items2)) > 0
                          THEN RngStep(rng1) ELSE rng1
            IN  [Index |-> index, Seed |-> seed, start |-> m.start, end |-> m.end,
                 Items |-> placeCrumblingWalls(items3, rng2, crumbs),
                 GhostTickInterval |-> ghostInterval(index)])))

\* floor.New: the generator rng is private to the call
FloorNew(index, seed0, startPoint, endPoint, gameMode) ==
  LET seed    == IF seed0 = 0 THEN index ELSE seed0
      rng0    == NewSource(seed)
      area    == Width * Height
      base    == BaseWidth * BaseHeight
      pellets == Max(MinPellets, ((Intn(rng0, 2) + 4) * area) \div base)
      rng1    == RngStep(rng0)
      crumbs  == Max(MinCrumbling, (MinCrumbling * area) \div base)
  IN  Bind(MazeGenerate(seed, startPoint, endPoint), LAMBDA m :
        Bind(Solve(m), LAMBDA sol :
          Bind(placePowerPellets(placeDots(newItems(m), SubSeq(sol, 2, Len(sol) - 1)),
                                 pellets),
               LAMBDA items2 :
            LET items3 == IF gameMode = ModeCrazy THEN placeFuse(items2, rng1)
                          ELSE items2
                rng2   == IF gameMode = ModeCrazy /\ Len(PelletCandidates(items2)) > 0
                          THEN RngStep(rng1) ELSE rng1
            IN  [Index |-> index, Seed |-> seed, start |-> m.start, end |-> m.end,
                 Items |-> placeCrumblingWalls(items3, rng2, crumbs),
                 GhostTickInterval |-> ghostInterval(index)])))

\* ItemAt that returns the tile it returns beside the error, without the error
ItemAtNoErr(f, x, y) == IF ~InBounds(x, y) THEN "Empty" ELSE f.Items[y][x]

\* ItemAt: the tile, or "err" for coordinates outside the grid
ItemAt(f, x, y) == IF ~InBounds(x, y) THEN "err" ELSE f.Items[y][x]

\* EatItem: the tile it returns
EatItemRet(f, x, y) == IF ~InBounds(x, y) THEN "Empty" ELSE f.Items[y][x]

\* EatItem that returns the tile and leaves it in place
EatItemKeepsTile(f, x, y) == f

\* EatItem: the floor it leaves
EatItem(f, x, y) ==
  IF ~InBounds(x, y) THEN f
  ELSE IF f.Items[y][x] = "Dot" \/ f.Items[y][x] = "PowerPellet"
       THEN [f EXCEPT !.Items[y][x] = "Empty"]
       ELSE f

BreakWall(f, x, y) ==
  IF ~InBounds(x, y) THEN f ELSE [f EXCEPT !.Items[y][x] = "Empty"]

(***************************************************************************)
(* package dweller: ghosts                                                  *)
(***************************************************************************)
\* GhostType: Curly, Lofty, Fluffy, Virty, in the order of the ghosts slice
GhostTypes == <<"Curly", "Lofty", "Fluffy", "Virty">>
\* the first ghost of the slice, whose Chase target is the player's cell
Curly == 1
NumGhosts == Len(GhostTypes)
GhostIds == 1 .. NumGhosts

GhostStates == {"Chase", "Scatter", "Frightened", "Eaten", "Exiting"}

moveIn(p, d) ==
  CASE d = "Up"    -> Pos(p.X, p.Y - 1)
    [] d = "Down"  -> Pos(p.X, p.Y + 1)
    [] d = "Left"  -> Pos(p.X - 1, p.Y)
    [] d = "Right" -> Pos(p.X + 1, p.Y)
    [] OTHER       -> p

RECURSIVE moveInN(_, _, _)
moveInN(p, d, n) == IF n = 0 THEN p ELSE moveInN(moveIn(p, d), d, n - 1)

vectorTarget(from, to) ==
  Pos(from.X + 2 * (to.X - from.X), from.Y + 2 * (to.Y - from.Y))

oppositeDirection(d) ==
  CASE d = "Up"    -> "Down"
    [] d = "Down"  -> "Up"
    [] d = "Left"  -> "Right"
    [] d = "Right" -> "Left"
    [] OTHER       -> d

scatterTargetOf(t) ==
  CASE t = "Curly"  -> Pos(Width - 1, 0)
    [] t = "Fluffy" -> Pos(0, 0)
    [] t = "Lofty"  -> Pos(Width - 1, Height - 1)
    [] OTHER        -> Pos(0, Height - 1)

\* SetExit
exitTarget == Pos(Width \div 2, (Height - DenHeight) \div 2 - 1)

ReleaseStep == 3000

\* NewGhost, then SetState(Exiting) and SetRelease: ghost i (1-based) placed at
\* home at time now
NewGhost(i, home, now) ==
  [position |-> home, direction |-> "Left", state |-> "Exiting", home |-> home,
   releaseTime |-> now + (i - 1) * ReleaseStep]

\* PlaceGhosts: ghost i draws its column, then its row, from the shared rng;
\* rng is the generator's state before the first draw
RECURSIVE RngSteps(_, _)
RngSteps(s, n) == IF n = 0 THEN s ELSE RngSteps(RngStep(s), n - 1)

PlaceGhosts(rng, now) ==
  LET denWidth == IF DenWidth % 2 = 0 THEN DenWidth + 1 ELSE DenWidth
      startCol == (Width - denWidth) \div 2 + 1
      startRow == (Height - DenHeight) \div 2 + 1
      home(i)  == Pos(startCol + Intn(RngSteps(rng, 2 * (i - 1)), denWidth - 2),
                      startRow + Intn(RngSteps(rng, 2 * (i - 1) + 1), DenHeight - 2))
  IN  [ghosts |-> [i \in GhostIds |-> NewGhost(i, home(i), now)],
       rng    |-> RngSteps(rng, 2 * NumGhosts)]

VirtyRange == 8

\* targetPos whose Lofty aims at the point ahead of the player itself and whose
\* Fluffy aims 2 steps ahead
targetPosShort(gs, i, ht, htDir, curlyPos) ==
  IF gs[i].state = "Chase"
  THEN CASE GhostTypes[i] = "Curly"  -> ht
         [] GhostTypes[i] = "Fluffy" -> moveInN(ht, htDir, 2)
         [] GhostTypes[i] = "Lofty"  -> moveInN(ht, htDir, 2)
         [] OTHER -> IF manhattan(gs[i].position, ht) > VirtyRange
                     THEN ht ELSE scatterTargetOf(GhostTypes[i])
  ELSE scatterTargetOf(GhostTypes[i])

targetPos(gs, i, ht, htDir, curlyPos) ==
  IF gs[i].state = "Chase"
  THEN CASE GhostTypes[i] = "Curly"  -> ht
         [] GhostTypes[i] = "Fluffy" -> moveInN(ht, htDir, 4)
         [] GhostTypes[i] = "Lofty"  -> vectorTarget(curlyPos, moveInN(ht, htDir, 2))
         [] OTHER -> IF manhattan(gs[i].position, ht) > VirtyRange
                     THEN ht ELSE scatterTargetOf(GhostTypes[i])
  ELSE scatterTargetOf(GhostTypes[i])

\* the walls check of canMoveTo without the test for a crumbling wall
WallFreeButCrumbling(f, p) ==
  ItemAt(f, p.X, p.Y) \notin {"err", "Wall"}

\* the walls check of canMoveTo
WallFree(f, p) ==
  ItemAt(f, p.X, p.Y) \notin {"err", "Wall", "CrumblingWall"}

\* canMoveTo without its loop over the other ghosts
GhostFreeUnchecked(gs, i, p) == TRUE

\* the other-ghosts check of canMoveTo
GhostFree(gs, i, p) == \A j \in GhostIds : j = i \/ gs[j].position # p

canMoveTo(gs, i, d, f) ==
  LET newPos == moveIn(gs[i].position, d)
  IN  WallFree(f, newPos) /\ GhostFree(gs, i, newPos)

\* validDirectionsExcludingOpposite that does not leave the opposite out
validDirectionsWithOpposite(gs, i, f) ==
  SelectSeq(Directions, LAMBDA d : canMoveTo(gs, i, d, f))

validDirectionsExcludingOpposite(gs, i, f) ==
  SelectSeq(Directions, LAMBDA d :
    d # oppositeDirection(gs[i].direction) /\ canMoveTo(gs, i, d, f))

validAllDirections(gs, i, f) ==
  SelectSeq(Directions, LAMBDA d : canMoveTo(gs, i, d, f))

\* findBestDirections with the comparison of distances reversed
findFarthestDirections(g, target, validDirections) ==
  SelectSeq(validDirections, LAMBDA d :
    \A k \in 1 .. Len(validDirections) :
      manhattan(moveIn(g.position, d), target)
        >= manhattan(moveIn(g.position, validDirections[k]), target))

findBestDirections(g, target, validDirections) ==
  SelectSeq(validDirections, LAMBDA d :
    \A k \in 1 .. Len(validDirections) :
      manhattan(moveIn(g.position, d), target)
        <= manhattan(moveIn(g.position, validDirections[k]), target))

\* g.direction = candidates[g.rng.Intn(len(candidates))]; g.Move()
\* w is the ghosts with the generator they share
MoveOneOf(w, i, cands) ==
  LET d == cands[Intn(w.rng, Len(cands)) + 1]
  IN  [ghosts |-> [w.ghosts EXCEPT ![i].direction = d,
                                   ![i].position = moveIn(w.ghosts[i].position, d)],
       rng    |-> RngStep(w.rng)]

\* moveToTarget that moves the ghost on in its direction when no direction
\* is legal
moveToTargetForced(w, i, f, target) ==
  LET gs    == w.ghosts
      first == findBestDirections(gs[i], target, validDirectionsExcludingOpposite(gs, i, f))
      cands == IF Len(first) = 0
               THEN findBestDirections(gs[i], target, validAllDirections(gs, i, f))
               ELSE first
  IN  MoveOneOf(w, i, IF Len(cands) > 0 THEN cands ELSE <<gs[i].direction>>)

moveToTarget(w, i, f, target) ==
  LET gs    == w.ghosts
      first == findBestDirections(gs[i], target, validDirectionsExcludingOpposite(gs, i, f))
      cands == IF Len(first) = 0
               THEN findBestDirections(gs[i], target, validAllDirections(gs, i, f))
               ELSE first
  IN  IF Len(cands) > 0 THEN MoveOneOf(w, i, cands) ELSE w

MoveRandom(w, i, f) ==
  LET gs       == w.ghosts
      first    == validDirectionsExcludingOpposite(gs, i, f)
      possible == IF Len(first) = 0 THEN validAllDirections(gs, i, f) ELSE first
  IN  IF Len(possible) = 0 THEN w ELSE MoveOneOf(w, i, possible)

SetGhostState(w, i, st) == [w EXCEPT !.ghosts[i].state = st]

\* the iteration that turns an Eaten ghost at home to Chase, and lets an
\* Exiting ghost out, in power mode too
MoveGhostAnyMode(w, i, f, powerMode, htPos, htDir, curlyPos, now) ==
  LET g == w.ghosts[i]
  IN  CASE g.state = "Frightened" -> MoveRandom(w, i, f)
        [] g.state = "Eaten" ->
             IF g.position = g.home
             THEN SetGhostState(w, i, "Chase")
             ELSE moveToTarget(w, i, f, g.home)
        [] g.state \in {"Chase", "Scatter"} ->
             moveToTarget(w, i, f, targetPos(w.ghosts, i, htPos, htDir, curlyPos))
        [] OTHER ->
             IF now < g.releaseTime THEN w
             ELSE IF g.position.X = exitTarget.X /\ abs(g.position.Y - exitTarget.Y) <= 1
                  THEN SetGhostState(w, i, "Chase")
                  ELSE moveToTarget(w, i, f, exitTarget)

\* one iteration of the loop of MoveGhosts, for ghost i
MoveGhost(w, i, f, powerMode, htPos, htDir, curlyPos, now) ==
  LET g == w.ghosts[i]
  IN  CASE g.state = "Frightened" -> MoveRandom(w, i, f)
        [] g.state = "Eaten" ->
             IF g.position = g.home
             THEN IF ~powerMode THEN SetGhostState(w, i, "Chase") ELSE w
             ELSE moveToTarget(w, i, f, g.home)
        [] g.state \in {"Chase", "Scatter"} ->
             moveToTarget(w, i, f, targetPos(w.ghosts, i, htPos, htDir, curlyPos))
        [] OTHER ->
             IF powerMode THEN w
             ELSE IF now < g.releaseTime THEN w
             ELSE IF g.position.X = exitTarget.X /\ abs(g.position.Y - exitTarget.Y) <= 1
                  THEN SetGhostState(w, i, "Chase")
                  ELSE moveToTarget(w, i, f, exitTarget)

\* ghost g takes a branch of MoveGhosts that calls MoveRandom, MoveToHome or
\* moveToTarget
Tries(g, powerMode, now) ==
  CASE g.state = "Frightened" -> TRUE
    [] g.state = "Eaten" -> g.position # g.home
    [] g.state \in {"Chase", "Scatter"} -> TRUE
    [] OTHER -> /\ ~powerMode
                /\ ~(now < g.releaseTime)
                /\ ~(g.position.X = exitTarget.X /\ abs(g.position.Y - exitTarget.Y) <= 1)

\* the step record of ghost i: the cell it left, whether the cell it entered
\* held another ghost at the moment it entered it, whether it had no legal
\* move at its turn, whether its turn called for a move, and the ghost as its
\* turn found it and left it
StepOf(before, after, i, f, powerMode, now) ==
  [from  |-> before[i].position,
   clash |-> /\ after[i].position # before[i].position
             /\ \E j \in GhostIds : j # i /\ before[j].position = after[i].position,
   stuck |-> Len(validAllDirections(before, i, f)) = 0,
   tried |-> Tries(before[i], powerMode, now),
   found |-> before[i],
   left  |-> after[i]]

NoStep(gs) ==
  [i \in GhostIds |-> [from |-> gs[i].position, clash |-> FALSE, stuck |-> FALSE,
                        tried |-> FALSE, found |-> gs[i], left |-> gs[i]]]

\* the loop of MoveGhosts from ghost i on; steps collects the step records
RECURSIVE MoveFrom(_, _, _, _, _, _, _, _, _)
MoveFrom(w0, steps0, i, f, powerMode, htPos, htDir, curlyPos, now) ==
  Bind2(w0, steps0, LAMBDA w, steps :
    IF i > NumGhosts THEN [ghosts |-> w.ghosts, rng |-> w.rng, steps |-> steps]
    ELSE Bind(MoveGhost(w, i, f, powerMode, htPos, htDir, curlyPos, now), LAMBDA w2 :
           MoveFrom(w2, [steps EXCEPT ![i] = StepOf(w.ghosts, w2.ghosts, i, f, powerMode,
                                                        now)], i + 1,
                    f, powerMode, htPos, htDir, curlyPos, now)))

MoveGhosts(w0, f, powerMode, htPos, htDir, now) ==
  Bind2(w0, htPos, LAMBDA w, ht :
    MoveFrom(w, NoStep(w.ghosts), 1, f, powerMode, ht, htDir, w.ghosts[1].position,
             now))

\* GhostController: modePattern, durations in seconds
ScatterPhase == 5
ChasePhaseHours == 9999
LastPhase == 1

phaseState(k) == IF k = 0 THEN "Scatter" ELSE "Chase"

phaseDuration(k) == IF k = 0 THEN ScatterPhase ELSE ChasePhaseHours * 3600

NewGhostController(now) == [modeIndex |-> 0, modeTimer |-> now]

\* GhostController.Update that sets the state of every ghost, whatever its state
ControllerUpdateAll(gc, gs, now) ==
  LET due == (now - gc.modeTimer) \div 1000 >= phaseDuration(gc.modeIndex)
      gc2 == IF due
             THEN [modeIndex |-> IF gc.modeIndex + 1 > LastPhase THEN LastPhase
                                 ELSE gc.modeIndex + 1,
                   modeTimer |-> now]
             ELSE gc
  IN  [gc |-> gc2,
       ghosts |-> [i \in GhostIds |-> [gs[i] EXCEPT !.state = phaseState(gc2.modeIndex)]]]

\* GhostController.Update that advances the phase and leaves the ghosts'
\* states as they are
ControllerUpdatePhaseOnly(gc, gs, now) ==
  LET due == (now - gc.modeTimer) \div 1000 >= phaseDuration(gc.modeIndex)
      gc2 == IF due
             THEN [modeIndex |-> IF gc.modeIndex + 1 > LastPhase THEN LastPhase
                                 ELSE gc.modeIndex + 1,
                   modeTimer |-> now]
             ELSE gc
  IN  [gc |-> gc2, ghosts |-> gs]

\* GhostController.Update: the controller and the ghosts after it
ControllerUpdate(gc, gs, now) ==
  LET due == (now - gc.modeTimer) \div 1000 >= phaseDuration(gc.modeIndex)
      gc2 == IF due
             THEN [modeIndex |-> IF gc.modeIndex + 1 > LastPhase THEN LastPhase
                                 ELSE gc.modeIndex + 1,
                   modeTimer |-> now]
             ELSE gc
      cur == phaseState(gc2.modeIndex)
  IN  [gc |-> gc2,
       ghosts |-> [i \in GhostIds |->
                    IF gs[i].state \in {"Chase", "Scatter"}
                    THEN [gs[i] EXCEPT !.state = cur] ELSE gs[i]]]

(***************************************************************************)
(* package dweller: the player; package score                              *)
(***************************************************************************)
defaultLives == 3

NewHaunteed(home) ==
  [home |-> home, position |-> home, direction |-> "Right", lives |-> defaultLives]

HandleInput(ht, k) ==
  [ht EXCEPT !.direction =
     CASE k = "up"    -> "Up"
       [] k = "down"  -> "Down"
       [] k = "left"  -> "Left"
       [] k = "right" -> "Right"
       [] OTHER       -> "No"]

LoseLife(ht) == IF ht.lives > 0 THEN [ht EXCEPT !.lives = @ - 1] ELSE ht

IsDead(ht) == ht.lives <= 0

NewScore == [value |-> 0, eatenGhostsStreak |-> 0]

GhostPoints == 200
MaxStreak == 3

RECURSIVE Shl(_, _)
Shl(v, n) == IF n = 0 THEN v ELSE Shl(2 * v, n - 1)

ScoreAdd(sc, points) == [sc EXCEPT !.value = @ + points]

AddGhostPoints(sc) ==
  [value |-> sc.value + Shl(GhostPoints, sc.eatenGhostsStreak),
   eatenGhostsStreak |-> IF sc.eatenGhostsStreak < MaxStreak
                         THEN sc.eatenGhostsStreak + 1 ELSE sc.eatenGhostsStreak]

ResetGhostStreak(sc) == [sc EXCEPT !.eatenGhostsStreak = 0]

(***************************************************************************)
(* package play.  The play model shares the player, the score and the      *)
(* floor (an entry of the floor cache, named by its index) with the app.   *)
(* Update returns the model's new fields and the command, as a record      *)
(* [play, haunteed, score, floor, cmd].                                    *)
(***************************************************************************)
frightenedPeriod == 10000
autoRepeatThreshold == 100
PelletPoints == 50

Keys == {"up", "down", "left", "right", "p", "c", "x"}

NoCmd == [type |-> "none"]
TickCmd == [type |-> "GhostTick"]
\* motd.Init(): the ticker of the pause banner
MotdCmd == [type |-> "motd"]

\* play.New for floor f with the seed recorded for it, at time now
PlayNew(f, seed, floorVisibility, now) ==
  LET placed == PlaceGhosts(NewSource(seed), now)
  IN  [ghosts            |-> placed.ghosts,
       rng               |-> placed.rng,
       steps             |-> NoStep(placed.ghosts),
       lastKey           |-> "none",
       lastKeyTime       |-> 0 - autoRepeatThreshold,
       lastGhostMove     |-> now,
       powerMode         |-> FALSE,
       powerModeUntil    |-> now,
       gc                |-> NewGhostController(now),
       ghostTickInterval |-> f.GhostTickInterval,
       justArrived       |-> TRUE,
       fullVisibility    |-> floorVisibility,
       paused            |-> FALSE,
       gotCrumbs         |-> FALSE]

Result(pl, ht, sc, f, cmd) ==
  [play |-> pl, haunteed |-> ht, score |-> sc, floor |-> f, cmd |-> cmd]

DotPoints(pl, gameMode) ==
  CASE gameMode = ModeEasy  -> 5
    [] gameMode = ModeNoisy -> 10
    [] gameMode = ModeCrazy -> IF pl.gotCrumbs THEN 5
                               ELSE IF ~pl.fullVisibility THEN 30 ELSE 15
    [] OTHER -> 0

\* "check haunteed collisions with ghosts", from ghost i on
RECURSIVE Collisions(_, _, _, _, _)
Collisions(pl, ht, sc, f, i) ==
  IF i > NumGhosts THEN Result(pl, ht, sc, f, TickCmd)
  ELSE IF ht.position # pl.ghosts[i].position THEN Collisions(pl, ht, sc, f, i + 1)
  ELSE CASE pl.ghosts[i].state = "Frightened" ->
              Collisions([pl EXCEPT !.ghosts[i].state = "Eaten"], ht,
                         AddGhostPoints(sc), f, i + 1)
         [] pl.ghosts[i].state = "Chase" ->
              LET h2 == LoseLife(ht)
              IN  IF IsDead(h2)
                  THEN Result(pl, h2, sc, f, [type |-> "GameOver", score |-> sc.value])
                  ELSE Result(pl, h2, sc, f, [type |-> "Respawn", lives |-> h2.lives])
         [] OTHER -> Collisions(pl, ht, sc, f, i + 1)

\* "update power mode"
PowerExpired(pl, now) == pl.powerMode /\ now > pl.powerModeUntil

\* the power mode update that switches power mode off and leaves the ghosts
\* as they are
PowerUpdateKeepsGhosts(pl, f, now) ==
  IF PowerExpired(pl, now)
  THEN [pl EXCEPT !.powerMode = FALSE, !.ghostTickInterval = f.GhostTickInterval]
  ELSE pl

PowerUpdate(pl, f, now) ==
  IF PowerExpired(pl, now)
  THEN [pl EXCEPT !.powerMode = FALSE,
                  !.ghostTickInterval = f.GhostTickInterval,
                  !.ghosts = [i \in GhostIds |->
                               IF pl.ghosts[i].state = "Frightened"
                               THEN [pl.ghosts[i] EXCEPT !.state = "Chase"]
                               ELSE pl.ghosts[i]]]
  ELSE pl

\* case GhostTickMsg without the test of the time since the last move
GhostTickEvery(pl, ht, f, now) ==
  Bind(ControllerUpdate(pl.gc, pl.ghosts, now), LAMBDA cu :
    Bind(MoveGhosts([ghosts |-> cu.ghosts, rng |-> pl.rng], f, pl.powerMode,
                    ht.position, ht.direction, now),
         LAMBDA mv :
      [pl EXCEPT !.gc = cu.gc, !.ghosts = mv.ghosts, !.rng = mv.rng,
                 !.steps = mv.steps, !.lastGhostMove = now]))

\* case GhostTickMsg
GhostTick(pl, ht, f, now) ==
  IF now - pl.lastGhostMove >= pl.ghostTickInterval
  THEN Bind(ControllerUpdate(pl.gc, pl.ghosts, now), LAMBDA cu :
         Bind(MoveGhosts([ghosts |-> cu.ghosts, rng |-> pl.rng], f, pl.powerMode,
                         ht.position, ht.direction, now),
              LAMBDA mv :
           [pl EXCEPT !.gc = cu.gc, !.ghosts = mv.ghosts, !.rng = mv.rng,
                      !.steps = mv.steps, !.lastGhostMove = now]))
  ELSE pl

\* everything after the key switch: power mode, ghost tick, collisions
PlayRest(pl, ht, sc, f, isTick, now) ==
  LET sc2 == IF PowerExpired(pl, now) THEN ResetGhostStreak(sc) ELSE sc
  IN  Bind(PowerUpdate(pl, f, now), LAMBDA pl2 :
        Bind(IF isTick THEN GhostTick(pl2, ht, f, now) ELSE pl2, LAMBDA pl3 :
          Collisions(pl3, ht, sc2, f, 1)))

\* the player's move with BreakWall called for every tile entered in power mode
PlayerMoveBreaksAny(pl, ht, f) ==
  LET nextPos == moveIn(ht.position, ht.direction)
      tile    == ItemAt(f, nextPos.X, nextPos.Y)
      canMove == ht.direction # "No" /\ tile # "err"
                 /\ IF tile = "CrumblingWall" THEN pl.powerMode ELSE tile # "Wall"
  IN  [floor    |-> IF canMove /\ pl.powerMode
                    THEN BreakWall(f, nextPos.X, nextPos.Y) ELSE f,
       haunteed |-> IF canMove THEN [ht EXCEPT !.position = nextPos] ELSE ht]

\* the player's move that enters a crumbling wall whether power mode is on or
\* not, breaking it in power mode only
PlayerMoveThroughCrumbling(pl, ht, f) ==
  LET nextPos == moveIn(ht.position, ht.direction)
      tile    == ItemAt(f, nextPos.X, nextPos.Y)
      break   == tile = "CrumblingWall" /\ pl.powerMode
      canMove == ht.direction # "No" /\ tile # "err" /\ tile # "Wall"
  IN  [floor    |-> IF ht.direction # "No" /\ break
                    THEN BreakWall(f, nextPos.X, nextPos.Y) ELSE f,
       haunteed |-> IF canMove THEN [ht EXCEPT !.position = nextPos] ELSE ht]

\* the player's move of the key handler: the floor and the player after it
\* (a crumbling wall is broken, and entered, in power mode only)
PlayerMove(pl, ht, f) ==
  LET nextPos == moveIn(ht.position, ht.direction)
      tile    == ItemAt(f, nextPos.X, nextPos.Y)
      break   == tile = "CrumblingWall" /\ pl.powerMode
      canMove == ht.direction # "No" /\ tile # "err"
                 /\ IF tile = "CrumblingWall" THEN pl.powerMode ELSE tile # "Wall"
  IN  [floor    |-> IF ht.direction # "No" /\ break
                    THEN BreakWall(f, nextPos.X, nextPos.Y) ELSE f,
       haunteed |-> IF canMove THEN [ht EXCEPT !.position = nextPos] ELSE ht]

\* the key handler asking for the floor change on Start and End whether the
\* player has just arrived or not
PlayKeyAnyArrival(pl, ht0, sc, f0, k, gameMode, now) ==
  Bind(PlayerMove(pl, HandleInput(ht0, k), f0), LAMBDA mv :
  LET ht   == mv.haunteed
      tile == EatItemRet(mv.floor, ht.position.X, ht.position.Y)
      f    == EatItem(mv.floor, ht.position.X, ht.position.Y)
      arrived == [pl EXCEPT !.justArrived = FALSE]
  IN  CASE tile = "Dot" ->
             PlayRest(arrived, ht, ScoreAdd(sc, DotPoints(pl, gameMode)), f, FALSE, now)
        [] tile = "PowerPellet" ->
             PlayRest([arrived EXCEPT
                         !.powerMode = TRUE,
                         !.powerModeUntil = now + frightenedPeriod,
                         !.ghostTickInterval = f.GhostTickInterval * 2,
                         !.ghosts = [i \in GhostIds |->
                                      [pl.ghosts[i] EXCEPT !.state = "Frightened"]]],
                      ht, ScoreAdd(sc, PelletPoints), f, FALSE, now)
        [] tile = "Fuse" ->
             Result([pl EXCEPT !.fullVisibility = ~pl.fullVisibility], ht, sc, f,
                    [type |-> "VisibilityToggled", floorIndex |-> f.Index,
                     isVisible |-> ~pl.fullVisibility])
        [] tile = "Start" ->
             Result(pl, ht, sc, f, [type |-> "PrevFloor"])
        [] tile = "End" ->
             Result(pl, ht, sc, f, [type |-> "NextFloor"])
        [] OTHER -> PlayRest(arrived, ht, sc, f, FALSE, now))

\* case tea.KeyMsg of the second switch, for a key that is not an auto-repeat
PlayKey(pl, ht0, sc, f0, k, gameMode, now) ==
  Bind(PlayerMove(pl, HandleInput(ht0, k), f0), LAMBDA mv :
  LET ht   == mv.haunteed
      tile == EatItemRet(mv.floor, ht.position.X, ht.position.Y)
      f    == EatItem(mv.floor, ht.position.X, ht.position.Y)
      arrived == [pl EXCEPT !.justArrived = FALSE]
  IN  CASE tile = "Dot" ->
             PlayRest(arrived, ht, ScoreAdd(sc, DotPoints(pl, gameMode)), f, FALSE, now)
        [] tile = "PowerPellet" ->
             PlayRest([arrived EXCEPT
                         !.powerMode = TRUE,
                         !.powerModeUntil = now + frightenedPeriod,
                         !.ghostTickInterval = f.GhostTickInterval * 2,
                         !.ghosts = [i \in GhostIds |->
                                      [pl.ghosts[i] EXCEPT !.state = "Frightened"]]],
                      ht, ScoreAdd(sc, PelletPoints), f, FALSE, now)
        [] tile = "Fuse" ->
             Result([pl EXCEPT !.fullVisibility = ~pl.fullVisibility], ht, sc, f,
                    [type |-> "VisibilityToggled", floorIndex |-> f.Index,
                     isVisible |-> ~pl.fullVisibility])
        [] tile = "Start" /\ ~pl.justArrived ->
             Result(pl, ht, sc, f, [type |-> "PrevFloor"])
        [] tile = "End" /\ ~pl.justArrived ->
             Result(pl, ht, sc, f, [type |-> "NextFloor"])
        [] OTHER -> PlayRest(arrived, ht, sc, f, FALSE, now))

\* play.Update for a message: kind is "key" (with the key k), "tick" (a
\* GhostTickMsg) or "other" (any message the switches do not name)
PlayUpdate(pl0, ht, sc, f0, kind, k, gameMode, now) ==
  Bind2(pl0, f0, LAMBDA pl, f :
  IF kind = "key" /\ k = "p"
  THEN Result([pl EXCEPT !.paused = ~pl.paused], ht, sc, f,
              IF ~pl.paused THEN MotdCmd ELSE TickCmd)
  ELSE IF kind = "key" /\ k = "c" /\ ~pl.paused /\ ~pl.gotCrumbs
          /\ gameMode = ModeCrazy /\ ht.lives > 1
  THEN Result([pl EXCEPT !.gotCrumbs = TRUE], LoseLife(ht), sc, f, TickCmd)
  ELSE IF pl.paused THEN Result(pl, ht, sc, f, NoCmd)
  ELSE IF kind = "key"
  THEN LET isAutoRepeat == k = pl.lastKey /\ now - pl.lastKeyTime < autoRepeatThreshold
           pl2 == [pl EXCEPT !.lastKey = k, !.lastKeyTime = now]
       IN  IF isAutoRepeat THEN Result(pl2, ht, sc, f, NoCmd)
           ELSE PlayKey(pl2, ht, sc, f, k, gameMode, now)
  ELSE PlayRest(pl, ht, sc, f, kind = "tick", now))

(***************************************************************************)
(* package app                                                              *)
(***************************************************************************)
EmptyMap == <<>>

\* getFloor that compares the required start only
getFloorStartOnly(index, sds, ch, startPoint, endPoint, gameMode, nanos) ==
  LET cached        == index \in DOMAIN ch
      startMismatch == startPoint # NoPoint /\ ch[index].start # startPoint
  IN  IF cached /\ ~startMismatch
      THEN [ret |-> ch[index], cache |-> ch, seeds |-> sds]
      ELSE LET sds2 == IF index \in DOMAIN sds THEN sds ELSE (index :> nanos) @@ sds
           IN  Bind(FloorNew(index, sds2[index], startPoint, endPoint, gameMode),
                    LAMBDA f : [ret |-> f, cache |-> (index :> f) @@ ch, seeds |-> sds2])

\* getFloor that generates the floor on every call
getFloorNoCache(index, sds, ch, startPoint, endPoint, gameMode, nanos) ==
  LET sds2 == IF index \in DOMAIN sds THEN sds ELSE (index :> nanos) @@ sds
  IN  Bind(FloorNew(index, sds2[index], startPoint, endPoint, gameMode),
           LAMBDA f : [ret |-> f, cache |-> (index :> f) @@ ch, seeds |-> sds2])

\* getFloor: the floor it returns, and the cache and the seeds it leaves;
\* nanos is time.Now().UnixNano() at the call
getFloor(index, sds, ch, startPoint, endPoint, gameMode, nanos) ==
  LET cached        == index \in DOMAIN ch
      startMismatch == startPoint # NoPoint /\ ch[index].start # startPoint
      endMismatch   == endPoint # NoPoint /\ ch[index].end # endPoint
  IN  IF cached /\ ~startMismatch /\ ~endMismatch
      THEN [ret |-> ch[index], cache |-> ch, seeds |-> sds]
      ELSE LET sds2 == IF index \in DOMAIN sds THEN sds ELSE (index :> nanos) @@ sds
           IN  Bind(FloorNew(index, sds2[index], startPoint, endPoint, gameMode),
                    LAMBDA f : [ret |-> f, cache |-> (index :> f) @@ ch, seeds |-> sds2])

respawnPeriod == 5000
nextPeriod == 5000

\* bounds of the exploration
MaxSeed == 2
MaxQuanta == 40
MaxTicks == 2
KeysPerQuantum == 1
MaxFloor == 1
MaxGames == 2

MinWait == 8
MaxWait == 14

\* the clock advances by one base ghost tick at a time
Quantum == defaultGhostTickInterval
MaxTime == MaxQuanta * Quantum

oppositeKey(k) ==
  CASE k = "up" -> "down" [] k = "down" -> "up" [] k = "left" -> "right"
    [] OTHER -> "left"

\* n quanta in which the user presses nothing
Wait(n) == [i \in 1 .. n |-> "wait"]

\* the sessions the user plays: the keys pressed, one per quantum, in order
Scripts ==
  { <<>>,
    <<"c">>,
    <<"left", "left", "down", "up", "right", "right">> \o Wait(12)
      \o <<"left", "right">>,
    <<"up", "up", "left", "right", "down", "down">> \o Wait(12)
      \o <<"left", "right">>,
    <<"p", "x", "p", "left", "right">>,
    <<"down", "down", "down", "down">>,
    <<"left", "left", "left", "left", "left", "left">>,
    <<"up", "up", "left", "left", "up", "up">>,
    <<"up">> \o Wait(frightenedPeriod \div Quantum) \o <<"down">> }
  \cup { <<a>> \o Wait(n) \o <<oppositeKey(a)>> :
           a \in {"up", "down", "left", "right"}, n \in MinWait .. MaxWait }

Seeds == 1 .. MaxSeed
Modes == {ModeEasy, ModeCrazy}
TickKinds == {"GhostTick", "NextTick", "RespawnTick"}
AppMsgTypes == {"Respawn", "GameOver", "NextFloor", "PrevFloor", "VisibilityToggled",
                "NextTimedout", "RespawnTimedout"}

VARIABLES
  now,          \* the wall clock, in milliseconds
  status,       \* app: the screen shown
  gameMode,     \* state.GameMode
  seeds,        \* state.FloorSeeds
  cache,        \* app: floorCache
  floor,        \* app: the index of the current floor, an entry of floorCache
  vis,          \* app: floorVisibility
  haunteed,     \* the player, shared by app and play
  score,        \* the score, shared by app and play
  play,         \* the play model
  respawnUntil, \* respawn model
  nextUntil,    \* floor intro model
  cmd,          \* the command the last Update returned
  msgs,         \* messages of finished commands, not yet handled
  ticksDue,     \* tick messages that have fired, not yet handled, per kind
  ticksNext,    \* ticks started, firing within the next quantum, per kind
  keysLeft,     \* key presses still possible before the clock advances
  plan,         \* the keys the user is still to press, in order
  got,          \* the last call of getFloor, EatItem or BreakWall made on the cache
  games,        \* games started so far
  geoip,        \* package geoip: the Default client and the goroutines calling it
  sound,        \* package sound: the Manager, its controllers and its mixer
  bosskey       \* app: bosskeyVisible, and the times the boss key screen was opened

vars == <<now, status, gameMode, seeds, cache, floor, vis, haunteed, score, play,
          respawnUntil, nextUntil, cmd, msgs, ticksDue, ticksNext, keysLeft, plan,
          got, games, geoip, sound, bosskey>>

\* package geoip: the goroutines calling GetLocationInfo
MaxCallers == 2
Callers == 1 .. MaxCallers

\* a goroutine outside GetLocationInfo, with what its last call returned
NotCalling == [pc |-> "idle", info |-> 0, err |-> FALSE, requested |-> FALSE]

\* the Default client: cache 0 is the nil cache, mu 0 the free mutex; requests
\* counts the HTTP requests issued, kinds[i] is what request i came back with
\* and clock is the wall clock
NewClient ==
  [cache |-> 0, cacheTime |-> 0, mu |-> 0, requests |-> 0, kinds |-> <<>>,
   clock |-> 0, calls |-> [g \in Callers |-> NotCalling]]

\* package sound: the samples loaded
Samples == {"step.wav", "intro.wav"}

\* NewManager and LoadSamples: ctrl[name] 0 is no entry of mgr.ctrl, ctrls
\* holds every beep.Ctrl made so far, mix the controllers in the mixer
NewManager ==
  [ctrl |-> [n \in Samples |-> 0], ctrls |-> <<>>, mix |-> {},
   last |-> [op |-> "none"]]

\* app.New: the boss key screen is hidden
NoBosskey == [visible |-> FALSE, opened |-> 0]

\* the packages the game screens leave alone here, and the boss key screen,
\* which they leave hidden
apart == <<geoip, sound, bosskey>>

NoCall == [n |-> 0, op |-> "none"]

\* the record of a call c, made after the call got recorded
Brief(c) == [k \in DOMAIN c \ {"n", "prev"} |-> c[k]]

Called(c) == c @@ [n |-> got.n + 1, prev |-> Brief(got)]

NoTicks == [k \in TickKinds |-> 0]

VisOf(v, i) == IF i \in DOMAIN v THEN v[i] ELSE FALSE

\* the zero play.Model the app holds until its first resetPlayModel
ZeroPlay ==
  [ghosts |-> <<>>, rng |-> 0, steps |-> <<>>, lastKey |-> "none",
   lastKeyTime |-> 0 - autoRepeatThreshold, lastGhostMove |-> 0, powerMode |-> FALSE,
   powerModeUntil |-> 0, gc |-> NewGhostController(0), ghostTickInterval |-> 0,
   justArrived |-> FALSE, fullVisibility |-> FALSE, paused |-> FALSE,
   gotCrumbs |-> FALSE]

\* app.New
Init ==
  \E mode \in Modes, nanos \in Seeds, script \in Scripts :
    \E g \in {getFloor(0, EmptyMap, EmptyMap, NoPoint, NoPoint, mode, nanos)} :
        /\ now = 0
        /\ status = "splash"
        /\ gameMode = mode
        /\ seeds = g.seeds
        /\ cache = g.cache
        /\ floor = 0
        /\ vis = EmptyMap
        /\ haunteed = NewHaunteed(g.ret.start)
        /\ score = NewScore
        /\ play = ZeroPlay
        /\ respawnUntil = 0
        /\ nextUntil = 0
        /\ cmd = NoCmd
        /\ msgs = {}
        /\ ticksDue = NoTicks
        /\ ticksNext = NoTicks
        /\ keysLeft = KeysPerQuantum
        /\ plan = script
        /\ got = NoCall
        /\ games = 1
        /\ geoip = NewClient
        /\ sound = NewManager
        /\ bosskey = NoBosskey

\* resetPlayModel, for the floor cache ch, the seeds sds and the current floor i
resetPlayModel(ch, sds, i) == PlayNew(ch[i], sds[i], VisOf(vis, i), now)

\* case splash.TimedoutMsg
SplashTimedout ==
  /\ status = "splash"
  /\ status' = "gameplay"
  /\ play' = resetPlayModel(cache, seeds, floor)
  /\ cmd' = TickCmd
  /\ UNCHANGED <<gameMode, seeds, cache, floor, vis, haunteed, score, respawnUntil,
                 nextUntil, got>>

\* case play.NextFloorMsg
NextFloorMsg ==
  /\ floor + 1 <= MaxFloor
  /\ \E nanos \in Seeds :
       \E g \in {getFloor(floor + 1, seeds, cache, cache[floor].end, NoPoint, gameMode,
                            nanos)} :
           /\ status' = "floorIntro"
           /\ floor' = floor + 1
           /\ cache' = g.cache
           /\ seeds' = g.seeds
           /\ haunteed' = [haunteed EXCEPT !.position = g.ret.start, !.home = g.ret.start]
           /\ nextUntil' = now + nextPeriod
           /\ cmd' = NoCmd
           /\ got' = Called([op |-> "getFloor", index |-> floor + 1,
                              start |-> cache[floor].end, end |-> NoPoint,
                              ret |-> g.ret])
           /\ UNCHANGED <<gameMode, vis, score, play, respawnUntil>>

\* case play.PrevFloorMsg
PrevFloorMsg ==
  /\ floor - 1 >= 0 - MaxFloor
  /\ \E nanos \in Seeds :
       \E g \in {getFloor(floor - 1, seeds, cache, NoPoint, cache[floor].start, gameMode,
                            nanos)} :
           /\ status' = "floorIntro"
           /\ floor' = floor - 1
           /\ cache' = g.cache
           /\ seeds' = g.seeds
           /\ haunteed' = [haunteed EXCEPT !.position = g.ret.end, !.home = g.ret.start]
           /\ nextUntil' = now + nextPeriod
           /\ cmd' = NoCmd
           /\ got' = Called([op |-> "getFloor", index |-> floor - 1, start |-> NoPoint,
                              end |-> cache[floor].start, ret |-> g.ret])
           /\ UNCHANGED <<gameMode, vis, score, play, respawnUntil>>

\* case play.RespawnMsg
RespawnMsg ==
  /\ status' = "respawning"
  /\ respawnUntil' = now + respawnPeriod
  /\ cmd' = [type |-> "RespawnTick"]
  /\ UNCHANGED <<gameMode, seeds, cache, floor, vis, haunteed, score, play, nextUntil, got>>

\* case play.GameOverMsg
GameOverMsg ==
  /\ status' = "gameOver"
  /\ cmd' = NoCmd
  /\ UNCHANGED <<gameMode, seeds, cache, floor, vis, haunteed, score, play,
                 respawnUntil, nextUntil, got>>

\* case play.VisibilityToggledMsg
VisibilityToggledMsg(m) ==
  /\ vis' = (m.floorIndex :> m.isVisible) @@ vis
  /\ cmd' = NoCmd
  /\ UNCHANGED <<status, gameMode, seeds, cache, floor, haunteed, score, play,
                 respawnUntil, nextUntil, got>>

\* statusGameplay, default: the play model handles the message
PlayDefault(m) ==
  LET kind == IF m.type = "Key" THEN "key"
              ELSE IF m.type = "GhostTick" THEN "tick" ELSE "other"
  IN  \E r \in {PlayUpdate(play, haunteed, score, cache[floor], kind,
                            IF m.type = "Key" THEN m.key ELSE "none", gameMode, now)} :
      /\ play' = r.play
      /\ haunteed' = r.haunteed
      /\ score' = r.score
      /\ cache' = [cache EXCEPT ![floor] = r.floor]
      /\ cmd' = r.cmd
      /\ UNCHANGED <<status, gameMode, seeds, floor, vis, respawnUntil, nextUntil, got>>

\* statusFloorIntro, case next.TimedoutMsg
NextTimedoutMsg ==
  /\ play' = resetPlayModel(cache, seeds, floor)
  /\ status' = "gameplay"
  /\ cmd' = TickCmd
  /\ UNCHANGED <<gameMode, seeds, cache, floor, vis, haunteed, score, respawnUntil,
                 nextUntil, got>>

\* next.Update starting a tick for tick messages only
NextDefaultTickOnly(m) ==
  /\ cmd' = IF m.type # "NextTick" THEN NoCmd
            ELSE IF now > nextUntil THEN [type |-> "NextTimedout"]
            ELSE [type |-> "NextTick"]
  /\ UNCHANGED <<status, gameMode, seeds, cache, floor, vis, haunteed, score, play,
                 respawnUntil, nextUntil, got>>

\* statusFloorIntro, default: next.Update
NextDefault(m) ==
  /\ cmd' = IF m.type = "Key" THEN NoCmd
            ELSE IF m.type = "NextTick" /\ now > nextUntil THEN [type |-> "NextTimedout"]
            ELSE [type |-> "NextTick"]
  /\ UNCHANGED <<status, gameMode, seeds, cache, floor, vis, haunteed, score, play,
                 respawnUntil, nextUntil, got>>

\* statusRespawning, case respawn.TimedoutMsg
RespawnTimedoutMsg ==
  /\ play' = resetPlayModel(cache, seeds, floor)
  /\ haunteed' = [haunteed EXCEPT !.position = haunteed.home]
  /\ status' = "gameplay"
  /\ cmd' = TickCmd
  /\ UNCHANGED <<gameMode, seeds, cache, floor, vis, score, respawnUntil, nextUntil, got>>

\* statusRespawning, default: respawn.Update
RespawnDefault ==
  /\ cmd' = IF now > respawnUntil THEN [type |-> "RespawnTimedout"]
            ELSE [type |-> "RespawnTick"]
  /\ UNCHANGED <<status, gameMode, seeds, cache, floor, vis, haunteed, score, play,
                 respawnUntil, nextUntil, got>>

\* statusGameOver, default: over.Update starts nothing for these messages
OverDefault ==
  /\ cmd' = NoCmd
  /\ UNCHANGED <<status, gameMode, seeds, cache, floor, vis, haunteed, score, play,
                 respawnUntil, nextUntil, got>>

\* app.Update for the message m
Update(m) ==
  \/ status = "gameplay" /\ m.type = "NextFloor" /\ NextFloorMsg
  \/ status = "gameplay" /\ m.type = "PrevFloor" /\ PrevFloorMsg
  \/ status = "gameplay" /\ m.type = "Respawn" /\ RespawnMsg
  \/ status = "gameplay" /\ m.type = "GameOver" /\ GameOverMsg
  \/ status = "gameplay" /\ m.type = "VisibilityToggled" /\ VisibilityToggledMsg(m)
  \/ /\ status = "gameplay"
     /\ m.type \notin {"NextFloor", "PrevFloor", "Respawn", "GameOver", "VisibilityToggled"}
     /\ PlayDefault(m)
  \/ status = "floorIntro" /\ m.type = "NextTimedout" /\ NextTimedoutMsg
  \/ status = "floorIntro" /\ m.type # "NextTimedout" /\ NextDefault(m)
  \/ status = "respawning" /\ m.type = "RespawnTimedout" /\ RespawnTimedoutMsg
  \/ status = "respawning" /\ m.type # "RespawnTimedout" /\ RespawnDefault
  \/ status = "gameOver" /\ OverDefault

\* the messages in flight after an Update whose command is cmd': a tick fires
\* within the next quantum, any other command's message is ready at once
InFlight(ms, due) ==
  /\ msgs' = IF cmd'.type \in AppMsgTypes THEN ms \cup {cmd'} ELSE ms
  /\ ticksNext' = IF cmd'.type \in TickKinds /\ ticksNext[cmd'.type] < MaxTicks
                  THEN [ticksNext EXCEPT ![cmd'.type] = @ + 1] ELSE ticksNext
  /\ ticksDue' = due

\* the splash screen times out
Splash ==
  /\ SplashTimedout
  /\ InFlight(msgs, ticksDue)
  /\ UNCHANGED <<now, keysLeft, plan, games, apart>>

\* the user presses a key
KeyPress ==
  /\ keysLeft > 0
  /\ status # "splash"
  /\ plan # <<>>
  /\ Head(plan) \in Keys
  /\ Update([type |-> "Key", key |-> Head(plan)])
  /\ plan' = Tail(plan)
  /\ InFlight(msgs, ticksDue)
  /\ keysLeft' = keysLeft - 1
  /\ UNCHANGED <<now, games, apart>>

\* a tick that has fired is handled
Tick ==
  /\ \E kind \in TickKinds :
       /\ ticksDue[kind] > 0
       /\ Update([type |-> kind])
       /\ InFlight(msgs, [ticksDue EXCEPT ![kind] = @ - 1])
  /\ UNCHANGED <<now, keysLeft, plan, games, apart>>

\* the message of a finished command is handled
Deliver ==
  /\ \E m \in msgs :
       /\ Update(m)
       /\ InFlight(msgs \ {m}, ticksDue)
  /\ UNCHANGED <<now, keysLeft, plan, games, apart>>

\* resetForNewGame, on over.PlayAgainMsg
PlayAgain ==
  /\ status = "gameOver"
  /\ games < MaxGames
  /\ \E g \in {getFloor(0, seeds, EmptyMap, NoPoint, NoPoint, gameMode, 0)} :
         /\ cache' = g.cache
         /\ seeds' = g.seeds
         /\ floor' = 0
         /\ vis' = EmptyMap
         /\ haunteed' = NewHaunteed(g.ret.start)
         /\ score' = NewScore
         /\ play' = PlayNew(g.ret, g.seeds[0], FALSE, now)
         /\ got' = Called([op |-> "getFloor", index |-> 0, start |-> NoPoint,
                            end |-> NoPoint, ret |-> g.ret])
  /\ status' = "gameplay"
  /\ cmd' = TickCmd
  /\ InFlight(msgs, ticksDue)
  /\ games' = games + 1
  /\ UNCHANGED <<now, gameMode, respawnUntil, nextUntil, keysLeft, plan, apart>>

\* time passes once every message that is ready has been handled
Advance ==
  /\ status # "splash"
  /\ msgs = {}
  /\ ticksDue = NoTicks
  /\ now + Quantum <= MaxTime
  /\ now' = now + Quantum
  /\ ticksDue' = ticksNext
  /\ ticksNext' = NoTicks
  /\ keysLeft' = KeysPerQuantum
  /\ \/ (keysLeft = 0 \/ plan = <<>>) /\ plan' = plan
     \/ keysLeft > 0 /\ plan # <<>> /\ Head(plan) = "wait" /\ plan' = Tail(plan)
  /\ UNCHANGED <<status, gameMode, seeds, cache, floor, vis, haunteed, score, play,
                 respawnUntil, nextUntil, cmd, msgs, got, games, apart>>

Next == Splash \/ KeyPress \/ Tick \/ Deliver \/ PlayAgain \/ Advance

Spec == Init /\ [][Next]_vars

(***************************************************************************)
(* The game with its scheduling, for a user who walks off the Start or End   *)
(* cell and back.  The runtime hands every message that is ready to          *)
(* app.Update, a timer that was started fires, the clock goes on and the     *)
(* user presses the keys of the script when their time has come: the game    *)
(* does not stop while one of its steps is possible.                         *)
(***************************************************************************)
FloorScripts ==
  {script \in Scripts :
     /\ Len(script) >= MinWait
     /\ script[Len(script)] = oppositeKey(script[Len(script) - 1])
            \/ script[Len(script) - 1] = "wait"}

InitLive == Init /\ plan \in FloorScripts

NextLive == Splash \/ KeyPress \/ Tick \/ Deliver \/ Advance

SpecLive == InitLive /\ [][NextLive]_vars /\ WF_vars(NextLive)

(***************************************************************************)
(* The game with the boss key.  While the boss key screen is visible         *)
(* app.Update hands no message to the screens: it answers the key "b" by     *)
(* hiding the screen and starting the Init command of the current screen,    *)
(* passes bosskey.TickMsg to the boss key screen, and returns for every      *)
(* other message without a command.  The ticks of the boss key screen touch  *)
(* nothing of the game and are left out.                                     *)
(***************************************************************************)
MaxBoss == 1
MaxBossPlan == 1

\* the sessions in which the user presses at most MaxBossPlan keys of the game
InitBoss == Init /\ Len(plan) <= MaxBossPlan

\* case tea.KeyMsg "b" with the boss key screen hidden
BossOpen ==
  /\ ~bosskey.visible
  /\ status # "splash"
  /\ bosskey.opened < MaxBoss
  /\ bosskey' = [visible |-> TRUE, opened |-> bosskey.opened + 1]
  /\ cmd' = NoCmd
  /\ UNCHANGED <<now, status, gameMode, seeds, cache, floor, vis, haunteed, score, play,
                 respawnUntil, nextUntil, msgs, ticksDue, ticksNext, keysLeft, plan,
                 got, games, geoip, sound>>

\* case tea.KeyMsg "b" with the boss key screen visible
BossClose ==
  /\ bosskey.visible
  /\ bosskey' = [bosskey EXCEPT !.visible = FALSE]
  /\ cmd' = CASE status = "gameplay"   -> TickCmd
               [] status = "floorIntro" -> [type |-> "NextTick"]
               [] status = "respawning" -> [type |-> "RespawnTick"]
               [] OTHER                 -> NoCmd
  /\ InFlight(msgs, ticksDue)
  /\ UNCHANGED <<now, status, gameMode, seeds, cache, floor, vis, haunteed, score, play,
                 respawnUntil, nextUntil, keysLeft, plan, got, games, geoip, sound>>

\* any other message with the boss key screen visible: return m, nil
BossDrop ==
  /\ bosskey.visible
  /\ \/ /\ \E kind \in TickKinds :
             /\ ticksDue[kind] > 0
             /\ ticksDue' = [ticksDue EXCEPT ![kind] = @ - 1]
          /\ UNCHANGED <<msgs, keysLeft, plan>>
     \/ /\ \E m \in msgs : msgs' = msgs \ {m}
          /\ UNCHANGED <<ticksDue, keysLeft, plan>>
     \/ /\ keysLeft > 0 /\ plan # <<>> /\ Head(plan) \in Keys
          /\ plan' = Tail(plan)
          /\ keysLeft' = keysLeft - 1
          /\ UNCHANGED <<msgs, ticksDue>>
  /\ cmd' = NoCmd
  /\ UNCHANGED <<now, status, gameMode, seeds, cache, floor, vis, haunteed, score, play,
                 respawnUntil, nextUntil, ticksNext, got, games, geoip, sound, bosskey>>

NextBoss ==
  \/ ~bosskey.visible /\ (Splash \/ KeyPress \/ Tick \/ Deliver \/ PlayAgain)
  \/ Advance
  \/ BossOpen
  \/ BossClose
  \/ BossDrop

SpecBoss == InitBoss /\ [][NextBoss]_vars

(***************************************************************************)
(* The floor cache driven directly: getFloor, EatItem and BreakWall called *)
(* with arguments of every kind on the cache of a freshly built app.       *)
(***************************************************************************)
MaxCalls == 2
MaxProbeRow == 2

FloorIndexes == (0 - MaxFloor) .. MaxFloor
ArgPoints == {NoPoint, Ports[1], Ports[2]}
ProbeXs == -1 .. Width
ProbeYs == -1 .. MaxProbeRow

InitFloor == Init /\ plan = <<>>

idle == <<now, status, gameMode, floor, vis, haunteed, score, play, respawnUntil,
          nextUntil, cmd, msgs, ticksDue, ticksNext, keysLeft, plan, games, geoip,
          sound, bosskey>>

GetFloorCall ==
  /\ got.n < MaxCalls
  /\ \E index \in FloorIndexes, sp \in ArgPoints, ep \in ArgPoints, nanos \in Seeds :
       /\ sp = NoPoint \/ sp # ep
       /\ \E g \in {getFloor(index, seeds, cache, sp, ep, gameMode, nanos)} :
            /\ cache' = g.cache
            /\ seeds' = g.seeds
            /\ got' = Called([op |-> "getFloor", index |-> index, start |-> sp,
                               end |-> ep, ret |-> g.ret])
  /\ UNCHANGED idle

EatItemCall ==
  /\ got.n < MaxCalls
  /\ \E i \in DOMAIN cache, x \in ProbeXs, y \in ProbeYs :
       /\ cache' = [cache EXCEPT ![i] = EatItem(cache[i], x, y)]
       /\ got' = Called([op |-> "EatItem", index |-> i, x |-> x, y |-> y,
                          ret |-> EatItemRet(cache[i], x, y)])
  /\ UNCHANGED <<idle, seeds>>

BreakWallCall ==
  /\ got.n < MaxCalls
  /\ \E i \in DOMAIN cache, x \in ProbeXs, y \in ProbeYs :
       /\ cache' = [cache EXCEPT ![i] = BreakWall(cache[i], x, y)]
       /\ got' = Called([op |-> "BreakWall", index |-> i, x |-> x, y |-> y])
  /\ UNCHANGED <<idle, seeds>>

NextFloorOps == GetFloorCall \/ EatItemCall \/ BreakWallCall

SpecFloor == InitFloor /\ [][NextFloorOps]_vars

(***************************************************************************)
(* The bounds checks driven directly: ItemAt, its callers (the player's     *)
(* move of play.Update and the ghosts' canMoveTo), EatItem and BreakWall    *)
(* called once on a floor of a freshly built app, from cells of every kind  *)
(* and towards coordinates inside and outside the grid.                     *)
(***************************************************************************)
Facings == {"Up", "Down", "Left", "Right"}

FromCells == {c \in Cells : c.Y <= MaxProbeRow}

Fresh == got = NoCall

ItemAtCall ==
  /\ Fresh
  /\ \E i \in DOMAIN cache, x \in ProbeXs, y \in ProbeYs :
       got' = Called([op |-> "ItemAt", index |-> i, x |-> x, y |-> y,
                      ret |-> ItemAt(cache[i], x, y)])
  /\ UNCHANGED <<idle, seeds, cache>>

\* the player on cell c presses key k
PlayerMoveCall ==
  /\ Fresh
  /\ \E i \in DOMAIN cache, c \in FromCells, k \in {"up", "down", "left", "right"},
        pm \in BOOLEAN :
       \E r \in {PlayerMove([ZeroPlay EXCEPT !.powerMode = pm],
                             HandleInput([haunteed EXCEPT !.position = c], k),
                             cache[i])} :
         /\ cache' = [cache EXCEPT ![i] = r.floor]
         /\ got' = Called([op |-> "PlayerMove", index |-> i, x |-> c.X, y |-> c.Y,
                            dir |-> r.haunteed.direction, ret |-> r.haunteed.position])
  /\ UNCHANGED <<idle, seeds>>

\* Curly on cell c, the other ghosts where PlaceGhosts put them
CanMoveToCall ==
  /\ Fresh
  /\ \E i \in DOMAIN cache, c \in FromCells, d \in Facings :
       \E gs \in {[PlaceGhosts(NewSource(seeds[i]), now).ghosts
                     EXCEPT ![Curly].position = c]} :
         got' = Called([op |-> "canMoveTo", index |-> i, x |-> c.X, y |-> c.Y,
                        dir |-> d, ret |-> canMoveTo(gs, Curly, d, cache[i])])
  /\ UNCHANGED <<idle, seeds, cache>>

NextBounds ==
  \/ ItemAtCall
  \/ PlayerMoveCall
  \/ CanMoveToCall
  \/ Fresh /\ EatItemCall
  \/ Fresh /\ BreakWallCall

SpecBounds == InitFloor /\ [][NextBounds]_vars

(***************************************************************************)
(* placePowerPellets driven directly: called once, with a requested count   *)
(* of every kind, on the grid newItems and placeDots leave for a maze.      *)
(***************************************************************************)
MaxRequested == 6

PlacePelletsCall ==
  /\ Fresh
  /\ \E seed \in Seeds, sp \in ArgPoints, ep \in ArgPoints,
        requested \in (0 - 1) .. MaxRequested :
       /\ sp = NoPoint \/ sp # ep
       /\ \E m \in {MazeGenerate(seed, sp, ep)} :
            \E items \in {placeDots(newItems(m),
                                     SubSeq(Solve(m), 2, Len(Solve(m)) - 1))} :
              got' = Called([op |-> "placePowerPellets", items |-> items,
                             requested |-> requested,
                             locs |-> PelletLocations(items, requested),
                             ret |-> placePowerPellets(items, requested)])
  /\ UNCHANGED <<idle, seeds, cache>>

SpecPellets == InitFloor /\ [][PlacePelletsCall]_vars

(***************************************************************************)
(* placeCrumblingWalls driven directly: called once, with a requested count *)
(* of every kind, on the grid floor.New has made of a maze when it calls it. *)
(***************************************************************************)
MaxCrumbling == 12

PlaceCrumblingCall ==
  /\ Fresh
  /\ \E seed \in Seeds, sp \in ArgPoints, ep \in ArgPoints, mode \in Modes,
        requested \in 0 .. MaxCrumbling :
       /\ sp = NoPoint \/ sp # ep
       /\ \E m \in {MazeGenerate(seed, sp, ep)} :
            \E items2 \in {placePowerPellets(
                              placeDots(newItems(m), SubSeq(Solve(m), 2, Len(Solve(m)) - 1)),
                              MinPellets)} :
              \E rng1 \in {RngStep(NewSource(seed))} :
                \E items \in {IF mode = ModeCrazy THEN placeFuse(items2, rng1)
                               ELSE items2} :
                  \E rng \in {IF mode = ModeCrazy /\ Len(PelletCandidates(items2)) > 0
                               THEN RngStep(rng1) ELSE rng1} :
                    got' = Called([op |-> "placeCrumblingWalls", maze |-> m,
                                   items |-> items, requested |-> requested,
                                   ret |-> placeCrumblingWalls(items, rng, requested)])
  /\ UNCHANGED <<idle, seeds, cache>>

SpecCrumbling == InitFloor /\ [][PlaceCrumblingCall]_vars

(***************************************************************************)
(* setFloorVisibility driven directly.  ambilite.Intensity is a value of    *)
(* [0, 1]; here it is lit / MaxLight for a whole lit of 0 .. MaxLight, so   *)
(* that int(float64(d) * litIntensity) is (d * lit) \div MaxLight for the   *)
(* d >= 0 of the mazes the game builds.                                      *)
(***************************************************************************)
MaxLight == 8
minFloorVisibilityRadius == 4
NightOptions == {"never", "always", "real"}

\* int(math.Sqrt(float64(n)))
ISqrt(n) == CHOOSE r \in 0 .. n : r * r <= n /\ n < (r + 1) * (r + 1)

FullVisibilityRadius == ISqrt(Width * Width + Height * Height)

\* the radius setFloorVisibility leaves in f.VisibilityRadius, as the claim
\* reads it: the night option alone decides
setFloorVisibilityAnyIndex(index, mode, night, lit) ==
  IF mode # ModeCrazy THEN FullVisibilityRadius
  ELSE IF night = "never" THEN FullVisibilityRadius
  ELSE IF night = "always" THEN minFloorVisibilityRadius
  ELSE minFloorVisibilityRadius
         + ((FullVisibilityRadius - minFloorVisibilityRadius) * lit) \div MaxLight

\* the radius setFloorVisibility leaves in f.VisibilityRadius
setFloorVisibility(index, mode, night, lit) ==
  IF mode # ModeCrazy THEN FullVisibilityRadius
  ELSE IF night = "never"
    THEN IF index < 0 THEN minFloorVisibilityRadius ELSE FullVisibilityRadius
  ELSE IF night = "always" THEN minFloorVisibilityRadius
  ELSE IF index < 0 THEN minFloorVisibilityRadius
  ELSE minFloorVisibilityRadius
         + ((FullVisibilityRadius - minFloorVisibilityRadius) * lit) \div MaxLight

SetFloorVisibilityCall ==
  /\ Fresh
  /\ \E index \in (0 - MaxFloor) .. MaxFloor, mode \in Modes,
        night \in NightOptions, lit \in 0 .. MaxLight :
       got' = Called([op |-> "setFloorVisibility", Index |-> index,
                      GameMode |-> mode, NightOption |-> night, lit |-> lit,
                      VisibilityRadius |->
                        setFloorVisibility(index, mode, night, lit)])
  /\ UNCHANGED <<idle, seeds, cache>>

SpecVisibility == InitFloor /\ [][SetFloorVisibilityCall]_vars

(***************************************************************************)
(* ghostInterval driven directly, for the floors MaxDepth up and down.      *)
(***************************************************************************)
MaxDepth == 30

GhostIntervalCall ==
  /\ Fresh
  /\ \E index \in (0 - MaxDepth) .. MaxDepth :
       got' = Called([op |-> "ghostInterval", floor |-> index,
                      ret |-> ghostInterval(index)])
  /\ UNCHANGED <<idle, seeds, cache>>

SpecInterval == InitFloor /\ [][GhostIntervalCall]_vars

(***************************************************************************)
(* package ambilite.  Times are minutes of the local day of the call, the   *)
(* resolution findSolarEventOptional rounds its results to; time.Time{} is  *)
(* the zero time, before every other time and further from it than the      *)
(* largest Duration.  The sun of the day is a profile [noon, midnight]: its  *)
(* altitude at local noon and at local midnight, in whole degrees, falling   *)
(* evenly from noon to midnight on both sides.  An intensity is a fraction   *)
(* [num, den].                                                               *)
(***************************************************************************)
TimeStep == 20

DayMinutes == 1440
NoonMinute == 720
CivilTwilight == 0 - 6
Horizon == 0

NoonAlts == {0 - 20, 0 - 6, 0 - 3, 0, 10, 50}
MidnightAlts == {0 - 70, 0 - 30, 0 - 6, 0 - 4, 5}
\* the sun is lower at local midnight than at local noon
Profiles == {sun \in [noon : NoonAlts, midnight : MidnightAlts] : sun.midnight < sun.noon}
CallTimes == {m \in 0 .. (DayMinutes - 1) : m % TimeStep = 0} \cup {NoonMinute}

At(m) == [zero |-> FALSE, min |-> m]
ZeroTime == [zero |-> TRUE, min |-> 0]

\* t.Before(u), t.After(u)
Before(t, u) ==
  IF t.zero THEN ~u.zero ELSE IF u.zero THEN FALSE ELSE t.min < u.min

After(t, u) == Before(u, t)

Frac(n, d) == [num |-> n, den |-> d]
FracZero == Frac(0, 1)
FracOne == Frac(1, 1)

\* solarAltitude at minute m of the day
solarAltitude(sun, m) ==
  sun.noon - ((sun.noon - sun.midnight) * abs(m - NoonMinute)) \div NoonMinute

\* the binary search of findSolarEventOptional
RECURSIVE Bisect(_, _, _, _, _)
Bisect(sun, targetAlt, afterNoon, start, end) ==
  IF end - start > 1
  THEN LET mid == start + (end - start) \div 2
       IN  IF (solarAltitude(sun, mid) > targetAlt) = afterNoon
           THEN Bisect(sun, targetAlt, afterNoon, mid, end)
           ELSE Bisect(sun, targetAlt, afterNoon, start, mid)
  ELSE start

findSolarEventOptional(sun, targetAlt, afterNoon) ==
  LET midnightAlt == solarAltitude(sun, 0)
      noonAlt     == solarAltitude(sun, NoonMinute)
      crosses     == (midnightAlt - targetAlt) * (noonAlt - targetAlt) <= 0
  IN  IF ~crosses THEN [at |-> ZeroTime, ok |-> FALSE]
      ELSE [at |-> At(Bisect(sun, targetAlt, afterNoon, 0, DayMinutes)), ok |-> TRUE]

\* interpolate: from the zero time both differences are the largest Duration
interpolate(start, end, current) ==
  IF ~After(end, start) THEN FracOne
  ELSE IF start.zero THEN FracOne
  ELSE LET total   == end.min - start.min
           elapsed == current.min - start.min
       IN  IF elapsed <= 0 THEN FracZero
           ELSE IF elapsed >= total THEN FracOne
           ELSE Frac(elapsed, total)

\* the four events Intensity looks for
SolarEvents(sun) ==
  [dawn    |-> findSolarEventOptional(sun, CivilTwilight, FALSE),
   sunrise |-> findSolarEventOptional(sun, Horizon, FALSE),
   sunset  |-> findSolarEventOptional(sun, Horizon, TRUE),
   dusk    |-> findSolarEventOptional(sun, CivilTwilight, TRUE)]

\* Intensity at minute m of a day with the sun given; tzOk: LoadLocation
\* finds the timezone
Intensity(m, sun, tzOk) ==
  IF ~tzOk THEN FracZero
  ELSE
    Bind(SolarEvents(sun), LAMBDA ev :
      LET localNow == At(m)
          dawn     == ev.dawn.at
          sunrise  == ev.sunrise.at
          sunset   == ev.sunset.at
          dusk     == ev.dusk.at
      IN  IF ~ev.dawn.ok \/ ~ev.dusk.ok \/ After(dawn, dusk)
          THEN IF solarAltitude(sun, NoonMinute) > CivilTwilight
               THEN FracOne ELSE FracZero
          ELSE CASE Before(localNow, dawn) -> FracZero
                 [] Before(localNow, sunrise) -> interpolate(dawn, sunrise, localNow)
                 [] Before(localNow, sunset) -> FracOne
                 [] Before(localNow, dusk) ->
                      LET r == interpolate(sunset, dusk, localNow)
                      IN  Frac(r.den - r.num, r.den)
                 [] OTHER -> FracZero)

IntensityCall ==
  /\ Fresh
  /\ \E sun \in Profiles, m \in CallTimes, tzOk \in BOOLEAN :
       got' = Called([op |-> "Intensity", now |-> m, sun |-> sun, tzOk |-> tzOk,
                      events |-> SolarEvents(sun),
                      ret |-> Intensity(m, sun, tzOk)])
  /\ UNCHANGED <<idle, seeds, cache>>

SpecLight == InitFloor /\ [][IntensityCall]_vars

(***************************************************************************)
(* package geoip.  GetLocationInfo holds c.mu from its first line to its    *)
(* return: a call waits for the mutex, then either returns the cache at     *)
(* once or issues its HTTP request and returns when the response is in.     *)
(* The LocationInfo of request i is named i.                                *)
(***************************************************************************)
cacheTTL == 2
MaxClock == 4
MaxLookups == 3

ResponseKinds ==
  {"ok", "transport", "non200", "undecodable", "notimezone", "badtimezone"}

\* "c.cache != nil && time.Since(c.cacheTime) < c.cacheTTL"
CacheFreshStrict(c) == c.cache # 0 /\ c.clock - c.cacheTime < cacheTTL

\* "c.cache != nil && time.Since(c.cacheTime) <= c.cacheTTL"
CacheFresh(c) == c.cache # 0 /\ c.clock - c.cacheTime <= cacheTTL

\* a response that is stored once its body is decoded
StoresDecoded(kind) == kind \in {"ok", "notimezone", "badtimezone"}

\* the response reaches "Refresh cache"
Stores(kind) == kind = "ok"

\* goroutine g calls GetLocationInfo
GeoCall(g) ==
  /\ geoip.calls[g].pc = "idle"
  /\ geoip' = [geoip EXCEPT !.calls[g].pc = "waiting"]

\* g takes the mutex and looks at the cache
GeoEnter(g) ==
  /\ geoip.calls[g].pc = "waiting"
  /\ geoip.mu = 0
  /\ IF CacheFresh(geoip)
     THEN geoip' = [geoip EXCEPT !.calls[g] = [pc |-> "idle", info |-> geoip.cache,
                                                err |-> FALSE, requested |-> FALSE]]
     ELSE /\ geoip.requests < MaxLookups
          /\ geoip' = [geoip EXCEPT !.mu = g, !.requests = @ + 1,
                                     !.calls[g].pc = "requesting"]

\* the request of g comes back
GeoRespond(g) ==
  /\ geoip.calls[g].pc = "requesting"
  /\ \E kind \in ResponseKinds :
       geoip' = [geoip EXCEPT
                   !.kinds = Append(@, kind),
                   !.cache = IF Stores(kind) THEN geoip.requests ELSE @,
                   !.cacheTime = IF Stores(kind) THEN geoip.clock ELSE @,
                   !.mu = 0,
                   !.calls[g] = [pc |-> "idle",
                                 info |-> IF kind = "ok" THEN geoip.requests ELSE 0,
                                 err |-> kind # "ok", requested |-> TRUE]]

GeoTime ==
  /\ geoip.clock < MaxClock
  /\ geoip' = [geoip EXCEPT !.clock = @ + 1]

game == <<now, status, gameMode, seeds, cache, floor, vis, haunteed, score, play,
          respawnUntil, nextUntil, cmd, msgs, ticksDue, ticksNext, keysLeft, plan,
          got, games, bosskey>>

NextGeoip ==
  /\ \/ \E g \in Callers : GeoCall(g)
     \/ \E g \in Callers : GeoEnter(g)
     \/ \E g \in Callers : GeoRespond(g)
     \/ GeoTime
  /\ UNCHANGED <<game, sound>>

SpecGeoip == InitFloor /\ [][NextGeoip]_vars

(***************************************************************************)
(* package sound.  Every method of the Manager holds mgr.mu from its first  *)
(* line to its return, so a call is one step and concurrent calls are steps *)
(* in any order.  The audio thread pulls from the mixer, which drops a      *)
(* controller whose Streamer is nil or has ended.                           *)
(***************************************************************************)
MaxCtrls == 3

\* the names asked for: the samples loaded and one that is not
SampleNames == Samples \cup {"quit.wav"}

\* "ctrl.Streamer = nil" for the controllers of mgr.ctrl under the names given
Drain(m, names) ==
  [c \in DOMAIN m.ctrls |->
     IF \E n \in names \cap Samples : m.ctrl[n] = c
     THEN [m.ctrls[c] EXCEPT !.live = FALSE] ELSE m.ctrls[c]]

\* playInternal without "Interrupt previous if exists"
playInternalOverlapping(m, name, loop) ==
  IF name \notin Samples THEN [m EXCEPT !.last = [op |-> "Play", names |-> {}]]
  ELSE LET c == Len(m.ctrls) + 1
       IN  [ctrl  |-> [m.ctrl EXCEPT ![name] = c],
            ctrls |-> Append(m.ctrls, [name |-> name, live |-> TRUE, loop |-> loop]),
            mix   |-> m.mix \cup {c},
            last  |-> [op |-> "Play", names |-> {name}]]

\* playInternal(name, loop, nil)
playInternal(m, name, loop) ==
  IF name \notin Samples THEN [m EXCEPT !.last = [op |-> "Play", names |-> {}]]
  ELSE LET c == Len(m.ctrls) + 1
       IN  [ctrl  |-> [m.ctrl EXCEPT ![name] = c],
            ctrls |-> Append(Drain(m, {name}),
                             [name |-> name, live |-> TRUE, loop |-> loop]),
            mix   |-> m.mix \cup {c},
            last  |-> [op |-> "Play", names |-> {name}]]

StopListed(m, names) ==
  [m EXCEPT !.ctrls = Drain(m, names),
            !.ctrl = [n \in Samples |-> IF n \in names THEN 0 ELSE m.ctrl[n]],
            !.last = [op |-> "StopListed", names |-> names \cap Samples]]

StopAll(m) ==
  [m EXCEPT !.ctrls = Drain(m, Samples),
            !.ctrl = [n \in Samples |-> 0],
            !.last = [op |-> "StopAll", names |-> Samples]]

\* Play and PlayLoop
PlayCall ==
  /\ Len(sound.ctrls) < MaxCtrls
  /\ \E name \in SampleNames, loop \in BOOLEAN :
       sound' = playInternal(sound, name, loop)

StopListedCall ==
  \E names \in SUBSET SampleNames : names # {} /\ sound' = StopListed(sound, names)

StopAllCall == sound' = StopAll(sound)

\* the mixer drops a controller that is drained, or one whose sample, not
\* looping, has played to its end
MixerStream ==
  \E c \in sound.mix :
    /\ ~sound.ctrls[c].live \/ ~sound.ctrls[c].loop
    /\ sound' = [sound EXCEPT !.mix = @ \ {c}, !.last = [op |-> "Stream"]]

NextSound ==
  /\ PlayCall \/ StopListedCall \/ StopAllCall \/ MixerStream
  /\ UNCHANGED <<game, geoip>>

SpecSound == InitFloor /\ [][NextSound]_vars

(***************************************************************************)
(* The chase scenario: the game taken up on the play screen with Curly in  *)
(* Chase on a cell of a corridor, facing any way, the player at rest three *)
(* cells due east of it, the other ghosts in the den and a ghost tick      *)
(* under way.                                                              *)
(***************************************************************************)
ChaseStartGap == 3

InitChase ==
  \E mode \in Modes, nanos \in Seeds, p \in Cells, d \in Facings :
    \E g \in {getFloor(0, EmptyMap, EmptyMap, NoPoint, NoPoint, mode, nanos)} :
      \E pl \in {PlayNew(g.ret, g.seeds[0], FALSE, 0)} :
        \E gs \in {[pl.ghosts EXCEPT ![Curly] = [@ EXCEPT !.position = p, !.direction = d,
                                                      !.state = "Chase"]]} :
          /\ \A k \in 0 .. ChaseStartGap :
               LET c == moveInN(p, "Right", k)
               IN  WallFree(g.ret, c) /\ GhostFree(gs, Curly, c)
          /\ now = 0
          /\ status = "gameplay"
          /\ gameMode = mode
          /\ seeds = g.seeds
          /\ cache = g.cache
          /\ floor = 0
          /\ vis = EmptyMap
          /\ haunteed = [NewHaunteed(g.ret.start) EXCEPT
                           !.position = moveInN(p, "Right", ChaseStartGap)]
          /\ score = NewScore
          /\ play = [pl EXCEPT !.ghosts = gs, !.steps = NoStep(gs),
                               !.gc = [modeIndex |-> LastPhase, modeTimer |-> 0]]
          /\ respawnUntil = 0
          /\ nextUntil = 0
          /\ cmd = TickCmd
          /\ msgs = {}
          /\ ticksDue = NoTicks
          /\ ticksNext = [NoTicks EXCEPT !["GhostTick"] = 1]
          /\ keysLeft = 0
          /\ plan = <<>>
          /\ got = NoCall
          /\ games = 1
          /\ geoip = NewClient
          /\ sound = NewManager
          /\ bosskey = NoBosskey

NextChase == Tick \/ Deliver \/ Advance

SpecChase == InitChase /\ [][NextChase]_vars

(***************************************************************************)
(* Claims                                                                   *)
(***************************************************************************)
Pickups == {"Dot", "PowerPellet"}

\* a step that is one more call of op on the cache
CallOf(op) == got'.op = op /\ got'.n = got.n + 1

SameGridBut(before, after, x, y) ==
  \A yy \in Ys, xx \in Xs : (xx # x \/ yy # y) => after.Items[yy][xx] = before.Items[yy][xx]

\* C1: no step of MoveGhosts, directed or random, takes a ghost onto a cell
\* that another ghost occupies at the moment of the step.
C1_NoStepOntoGhost ==
  \A i \in DOMAIN play.steps : ~play.steps[i].clash

\* C1 witness: a ghost has stepped while another ghost stood on a cell next
\* to the one it left.
C1_Witness ==
  /\ status = "gameplay"
  /\ \E i, j \in DOMAIN play.ghosts :
       /\ i < j
       /\ play.steps[i].from # play.ghosts[i].position
       /\ manhattan(play.steps[i].from, play.steps[j].from) = 1

\* C5: EatItem returns the tile of the cell; a Dot or PowerPellet becomes
\* Empty, nothing else changes; EatItem never makes a pickup, and a second
\* EatItem on the cell of an eaten pickup returns Empty and changes nothing.
C5_EatItemOnce ==
  [][CallOf("EatItem") =>
       LET c      == got'
           before == cache[c.index]
           after  == cache'[c.index]
       IN  /\ \A j \in DOMAIN cache \ {c.index} : cache'[j] = cache[j]
           /\ DOMAIN cache' = DOMAIN cache
           /\ IF InBounds(c.x, c.y)
              THEN /\ c.ret = before.Items[c.y][c.x]
                   /\ after.Items[c.y][c.x] =
                        (IF c.ret \in Pickups THEN "Empty" ELSE c.ret)
                   /\ SameGridBut(before, after, c.x, c.y)
              ELSE c.ret = "Empty" /\ after = before
           /\ (got.op = "EatItem" /\ got.index = c.index /\ got.x = c.x /\ got.y = c.y
                 /\ got.ret \in Pickups)
                => c.ret = "Empty" /\ cache' = cache]_vars

\* C5 witness: a Dot or PowerPellet was eaten and the next EatItem on the
\* same cell returned Empty.
C5_Witness ==
  /\ got.op = "EatItem"
  /\ got.prev.op = "EatItem"
  /\ got.prev.index = got.index /\ got.prev.x = got.x /\ got.prev.y = got.y
  /\ got.prev.ret \in Pickups
  /\ got.ret = "Empty"

\* C6: BreakWall changes the grid only when the cell is a CrumblingWall,
\* which becomes Empty; on a cell of any other kind it changes nothing.
C6_BreakWallOnlyCrumbling ==
  [][CallOf("BreakWall") =>
       LET c      == got'
           before == cache[c.index]
           after  == cache'[c.index]
       IN  IF InBounds(c.x, c.y) /\ before.Items[c.y][c.x] = "CrumblingWall"
           THEN after.Items[c.y][c.x] = "Empty" /\ SameGridBut(before, after, c.x, c.y)
           ELSE after = before]_vars

\* C9: getFloor returns the cached floor exactly when one is cached whose
\* Start and End equal the required points that are given; otherwise it
\* returns a floor generated from the seed recorded for the index, recording
\* a seed only when none is recorded; recorded seeds never change, the other
\* cache entries stay, and the cache entry of the index is the floor returned.
C9_GetFloor ==
  [][CallOf("getFloor") =>
       LET c   == got'
           i   == c.index
           hit == /\ i \in DOMAIN cache
                  /\ c.start = NoPoint \/ cache[i].start = c.start
                  /\ c.end = NoPoint \/ cache[i].end = c.end
       IN  /\ hit => c.ret = cache[i] /\ cache' = cache /\ seeds' = seeds
           /\ ~hit => /\ i \in DOMAIN seeds'
                      /\ c.ret = FloorNew(i, seeds'[i], c.start, c.end, gameMode)
                      /\ i \in DOMAIN cache => c.ret # cache[i]
           /\ \A j \in DOMAIN seeds : j \in DOMAIN seeds' /\ seeds'[j] = seeds[j]
           /\ DOMAIN seeds' \subseteq DOMAIN seeds \cup {i}
           /\ DOMAIN cache' = DOMAIN cache \cup {i}
           /\ cache'[i] = c.ret
           /\ \A j \in DOMAIN cache \ {i} : cache'[j] = cache[j]]_vars

\* C9 witness: a floor was generated for an index, and a second call for the
\* same index with a required point that its entry does not match returned a
\* floor generated anew from the same seed.
C9_Witness ==
  /\ got.op = "getFloor"
  /\ got.prev.op = "getFloor"
  /\ got.prev.index = got.index
  /\ got.ret # got.prev.ret
  /\ got.ret.Seed = got.prev.ret.Seed
  /\ cache[got.index] = got.ret

\* a ghost tick of the play screen on which the ghosts took their turn
GhostsTicked ==
  /\ status = "gameplay" /\ status' = "gameplay"
  /\ play.ghosts # <<>>
  /\ play'.lastGhostMove # play.lastGhostMove

\* this step brought the player and a Chase ghost onto one cell
Touched ==
  /\ status = "gameplay" /\ status' = "gameplay"
  /\ play.ghosts # <<>>
  /\ \E i \in GhostIds :
       /\ play'.ghosts[i].state = "Chase"
       /\ play'.ghosts[i].position = haunteed'.position
       /\ \/ play'.ghosts[i].position # play.ghosts[i].position
          \/ haunteed'.position # haunteed.position

\* C2: a player move or a ghost move that brings the player and a Chase ghost
\* onto one cell costs the player exactly one life in that update, whatever
\* the tile of the cell.
C2_TouchCostsLife ==
  [][Touched => haunteed'.lives = haunteed.lives - 1]_vars

\* the player was captured with lives left and the respawn has not begun
Captured == status = "gameplay" /\ \E m \in msgs : m.type = "Respawn"

\* what a respawn must leave alone: the grid of the current floor, the floor
\* index and the score
World == <<cache[floor].Items, floor, score.value>>

\* C3: from the capture that leaves lives remaining until the respawn is
\* over, the grid of the floor, the floor index and the score stay what they
\* were at the capture; the capture leads to the respawn, and the respawn puts
\* the player on the Start cell of the floor.
C3_RespawnKeepsWorld ==
  [][/\ (Captured \/ status = "respawning") => World' = World
     /\ Captured => status' \in {"gameplay", "respawning"}
     /\ (status = "respawning" /\ status' = "gameplay")
          => haunteed'.position = cache'[floor'].start]_vars

\* Curly chases, the player stands n cells due east of it, and the cells
\* between them hold no wall and no ghost
ChaseGap(n) ==
  /\ status = "gameplay"
  /\ play.ghosts # <<>>
  /\ play.ghosts[Curly].state = "Chase"
  /\ haunteed.position = moveInN(play.ghosts[Curly].position, "Right", n)
  /\ \A k \in 1 .. n :
       LET c == moveInN(play.ghosts[Curly].position, "Right", k)
       IN  WallFree(cache[floor], c) /\ GhostFree(play.ghosts, Curly, c)

\* the ghosts took their turn while the player stood still
TickedAtRest == GhostsTicked /\ haunteed'.position = haunteed.position

CurlyGap == manhattan(play.ghosts[Curly].position, haunteed.position)

\* C4 as claimed: with the player 3 cells due east, the chasing ghost is one
\* cell nearer after the tick, whatever direction it faces.
C4_ClosesAnyFacing ==
  [][(ChaseGap(ChaseStartGap) /\ TickedAtRest) => CurlyGap' = ChaseStartGap - 1]_vars

\* C4: with the player 3 cells due east and then 2, a chasing ghost that does
\* not face west is one cell nearer after every tick.
C4_ClosesUnlessFacingAway ==
  [][\A n \in 2 .. ChaseStartGap :
       (ChaseGap(n) /\ play.ghosts[Curly].direction # "Left" /\ TickedAtRest)
         => CurlyGap' = n - 1]_vars

\* C4 witness: Curly, chasing, has just stepped east from 3 cells to 2 cells
\* west of the player.
C4_Witness ==
  /\ ChaseGap(2)
  /\ play.steps[Curly].from = moveIn(play.ghosts[Curly].position, "Left")
  /\ play.ghosts[Curly].direction = "Right"

\* the cells of floor f that hold tile t
CellsOf(f, t) == {c \in Cells : f.Items[c.Y][c.X] = t}

\* a wall cell of the maze that holds nothing: a CrumblingWall that was broken
\* (newItems makes every wall cell of the maze a Wall, placeCrumblingWalls
\* turns some into CrumblingWall, and only BreakWall empties one)
Broken(f, c) == TestMaze[c.Y + 1][c.X + 1] = "Wall" /\ f.Items[c.Y][c.X] = "Empty"

\* C7: every cached floor has exactly one Start cell and exactly one End
\* cell, at the maze's Start() and End().
C7_OneStartOneEnd ==
  \A i \in DOMAIN cache :
    /\ CellsOf(cache[i], "Start") = {cache[i].start}
    /\ CellsOf(cache[i], "End") = {cache[i].end}

\* C7 witness: the player ate a pellet and broke a wall on floor 0, left it
\* through its Start cell and has moved on the floor below.
C7_Witness ==
  /\ status = "gameplay"
  /\ floor = 0 - 1
  /\ \E c \in Cells : Broken(cache[0], c)
  /\ haunteed.position # cache[floor].end
  /\ ~play.justArrived

\* C8: within one game a broken CrumblingWall stays Empty, on the floor the
\* player is on and on every floor left behind.
C8_BrokenStaysEmpty ==
  [][games' = games =>
       \A i \in DOMAIN cache : \A c \in Cells :
         Broken(cache[i], c)
           => i \in DOMAIN cache' /\ cache'[i].Items[c.Y][c.X] = "Empty"]_vars

\* C8 witness: the player broke a wall of floor 0, left for the floor below
\* and is back on floor 0, where the wall is still broken.
C8_Witness ==
  /\ status = "gameplay"
  /\ floor = 0
  /\ (0 - 1) \in DOMAIN cache
  /\ play.justArrived
  /\ \E c \in Cells : Broken(cache[0], c)

\* C11: until its release time (the moment the ghosts were placed plus 3
\* seconds per archetype index) no ghost is anywhere but on its spawn cell.
C11_HomeUntilRelease ==
  \A i \in DOMAIN play.ghosts :
    now < play.ghosts[i].releaseTime => play.ghosts[i].position = play.ghosts[i].home

\* the play screen before and after the step, with the same ghosts (every
\* change of screen to the play screen places new ghosts)
SamePlay == status = "gameplay" /\ status' = "gameplay" /\ play.ghosts # <<>>

\* C12: an Eaten ghost stays Eaten until it is on its home cell; there a
\* ghost tick with power mode off turns it to Chase, and nothing else ends
\* the Eaten state; while power mode is on it stays Eaten and stays put.
C12_EatenUntilHome ==
  [][SamePlay =>
       \A i \in GhostIds :
         play.ghosts[i].state = "Eaten" =>
           LET g      == play.ghosts[i]
               h      == play'.ghosts[i]
               atHome == g.position = g.home
           IN  /\ h.state \in {"Eaten", "Chase"}
               /\ h.state = "Chase" => atHome /\ GhostsTicked /\ ~play'.powerMode
               /\ (atHome /\ GhostsTicked /\ ~play'.powerMode) => h.state = "Chase"
               /\ (atHome /\ play'.powerMode)
                    => h.state = "Eaten" /\ h.position = g.position]_vars

\* a message handled by play.Update while the game is not paused
PlayUpdated ==
  /\ SamePlay
  /\ now' = now
  /\ ~\E m \in msgs \ msgs' : m.type = "VisibilityToggled"
  /\ ~play.paused /\ ~play'.paused

\* this step ate a power pellet
PelletEaten == SamePlay /\ play'.powerModeUntil # play.powerModeUntil

\* ghost i is Frightened before the step and, after it, still is or has been
\* captured on the player's cell
StaysInFlee(i) ==
  play.ghosts[i].state = "Frightened" =>
    \/ play'.ghosts[i].state = "Frightened"
    \/ play'.ghosts[i].state = "Eaten" /\ play'.ghosts[i].position = haunteed'.position

\* power mode is off after the step and every ghost that was Frightened is
\* in Chase
FleeOver ==
  /\ ~play'.powerMode
  /\ \A i \in GhostIds : play.ghosts[i].state = "Frightened" => play'.ghosts[i].state = "Chase"

\* what holds of every step up to the deadline: a pellet sets the deadline 10
\* seconds ahead and leaves every ghost Frightened (or captured at once), and
\* up to the deadline a Frightened ghost stays Frightened unless it is captured
FleeUntilDeadline ==
  /\ PelletEaten =>
       /\ play'.powerMode
       /\ play'.powerModeUntil = now + frightenedPeriod
       /\ \A i \in GhostIds :
            \/ play'.ghosts[i].state = "Frightened"
            \/ play'.ghosts[i].state = "Eaten" /\ play'.ghosts[i].position = haunteed'.position
  /\ (SamePlay /\ now' <= play'.powerModeUntil) => \A i \in GhostIds : StaysInFlee(i)

\* the deadline of the most recent pellet has passed and this update eats none
PastDeadline ==
  /\ PlayUpdated
  /\ play.powerMode
  /\ now > play.powerModeUntil
  /\ ~PelletEaten

ReachedPowerCheck ==
  /\ cmd'.type \in {"GhostTick", "Respawn", "GameOver"}
  /\ play'.gotCrumbs = play.gotCrumbs

CapturedNow == {i \in GhostIds : play'.ghosts[i].state = "Eaten" /\ play.ghosts[i].state # "Eaten"}

\* the points this step scored for the tile the player ate
TilePoints ==
  LET p    == haunteed'.position
      tile == cache[floor].Items[p.Y][p.X]
  IN  IF cache'[floor].Items[p.Y][p.X] = tile THEN 0
      ELSE IF tile = "Dot" THEN DotPoints(play, gameMode)
      ELSE IF tile = "PowerPellet" THEN PelletPoints
      ELSE 0

\* the award of a capture made with k captures before it in the window
AwardAfter(k) == IF k >= MaxStreak THEN Shl(GhostPoints, MaxStreak) ELSE Shl(GhostPoints, k)

RECURSIVE AwardsFrom(_, _)
AwardsFrom(k, n) == IF n = 0 THEN 0 ELSE AwardAfter(k) + AwardsFrom(k + 1, n - 1)

\* C14: a capture turns a Frightened ghost on the player's cell to Eaten and
\* awards 200, 400, 800, 1600, 1600, ... by the number of captures before it
\* in the window, which the streak counts up to 3; the streak is 0 whenever
\* power mode turns on.
C14_StreakAwards ==
  [][SamePlay =>
       /\ \A i \in CapturedNow :
            /\ play'.ghosts[i].position = haunteed'.position
            /\ play.ghosts[i].state = "Frightened" \/ PelletEaten
       /\ CapturedNow # {} =>
            /\ score'.value = score.value + TilePoints
                 + AwardsFrom(score.eatenGhostsStreak, Cardinality(CapturedNow))
            /\ score'.eatenGhostsStreak =
                 IF score.eatenGhostsStreak + Cardinality(CapturedNow) > MaxStreak
                 THEN MaxStreak
                 ELSE score.eatenGhostsStreak + Cardinality(CapturedNow)
       /\ (~play.powerMode /\ play'.powerMode) => score.eatenGhostsStreak = 0]_vars

\* the time the ghosts and their controller were made (Curly's release delay is 0)
PlacedAt == play.ghosts[Curly].releaseTime

\* what the claim says of the controller, for one step
ControllerRules ==
  /\ play'.gc.modeIndex >= play.gc.modeIndex
  /\ play.gc.modeIndex = LastPhase => play'.gc.modeIndex = LastPhase
  /\ GhostsTicked =>
       \A i \in GhostIds :
         LET g == play.ghosts[i]
             h == play'.ghosts[i]
         IN  /\ g.state \in {"Chase", "Scatter"}
                  => h.state = (IF play'.gc.modeIndex = 0 THEN "Scatter" ELSE "Chase")
             /\ g.state = "Frightened"
                  => \/ h.state \in {"Frightened", "Eaten"}
                     \/ h.state = "Chase" /\ play.powerMode /\ ~play'.powerMode
             /\ g.state \in {"Eaten", "Exiting"} => h.state \in {g.state, "Chase"}
             /\ now >= PlacedAt + ScatterPhase * 1000 => h.state # "Scatter"

C16_GhostsOffWalls ==
  status = "gameplay" =>
    \A i \in DOMAIN play.ghosts :
      LET p == play.ghosts[i].position
      IN  p # play.ghosts[i].home
            => /\ InBounds(p.X, p.Y)
               /\ cache[floor].Items[p.Y][p.X] \notin {"Wall", "CrumblingWall"}

\* C16 witness: a ghost has just stepped onto the cell of a broken
\* CrumblingWall.
C16_Witness ==
  /\ status = "gameplay"
  /\ \E i \in DOMAIN play.ghosts :
       /\ Broken(cache[floor], play.ghosts[i].position)
       /\ play.steps[i].from # play.ghosts[i].position

Towards(c) == moveIn(Pos(c.x, c.y), c.dir)

\* C18: ItemAt outside the grid returns the error and leaves the grid alone,
\* and inside it returns the tile; towards a point outside the grid the
\* player does not move and breaks nothing and a ghost's move is illegal;
\* EatItem and BreakWall outside the grid change nothing, and EatItem returns
\* Empty.
C18_OutOfBoundsIsNoTile ==
  [][LET c == got'
     IN  /\ CallOf("ItemAt") =>
              /\ cache' = cache
              /\ c.ret = (IF InBounds(c.x, c.y) THEN cache[c.index].Items[c.y][c.x]
                          ELSE "err")
         /\ (CallOf("PlayerMove") /\ ~InBounds(Towards(c).X, Towards(c).Y)) =>
              c.ret = Pos(c.x, c.y) /\ cache' = cache
         /\ (CallOf("canMoveTo") /\ ~InBounds(Towards(c).X, Towards(c).Y)) =>
              c.ret = FALSE /\ cache' = cache
         /\ (CallOf("EatItem") /\ ~InBounds(c.x, c.y)) => c.ret = "Empty" /\ cache' = cache
         /\ (CallOf("BreakWall") /\ ~InBounds(c.x, c.y)) => cache' = cache]_vars

\* C18 witness: the player, on a cell of the top row, pressed up and stayed.
C18_Witness ==
  /\ got.op = "PlayerMove"
  /\ got.dir = "Up"
  /\ got.y = 0
  /\ got.ret = Pos(got.x, got.y)

\* the cells that may take a pellet: Empty and outside the den
PelletCells(items) == {c \in Cells : items[c.Y][c.X] = "Empty" /\ ~IsInsideDen(c)}

\* the least distance from c to a cell of the sequence chosen
Nearest(c, chosen) ==
  LET ds == {manhattan(c, chosen[k]) : k \in 1 .. Len(chosen)}
  IN  CHOOSE d \in ds : \A e \in ds : d <= e

\* C19: placePowerPellets chooses min(requested, number of candidates) cells,
\* none when requested <= 0, pairwise distinct, each Empty and outside the
\* den; the first is a candidate farthest from the maze centre, every later
\* one a remaining candidate farthest from the cells chosen before it; the
\* grid it returns holds a PowerPellet on the chosen cells and is otherwise
\* the grid it was given.
C19_FarthestPointPellets ==
  got.op = "placePowerPellets" =>
    LET cands  == PelletCells(got.items)
        locs   == got.locs
        n      == IF got.requested <= 0 THEN 0
                  ELSE IF got.requested > Cardinality(cands) THEN Cardinality(cands)
                  ELSE got.requested
        centre == Pos(Width \div 2, Height \div 2)
        Earlier(k) == SubSeq(locs, 1, k - 1)
        Left(k)   == cands \ {locs[j] : j \in 1 .. (k - 1)}
    IN  /\ Len(locs) = n
        /\ \A j, k \in 1 .. n : j # k => locs[j] # locs[k]
        /\ \A k \in 1 .. n : locs[k] \in cands
        /\ n >= 1 => \A c \in cands : manhattan(c, centre) <= manhattan(locs[1], centre)
        /\ \A k \in 2 .. n :
             \A c \in Left(k) : Nearest(c, Earlier(k)) <= Nearest(locs[k], Earlier(k))
        /\ \A c \in Cells :
             got.ret[c.Y][c.X] = (IF \E k \in 1 .. n : locs[k] = c THEN "PowerPellet"
                                  ELSE got.items[c.Y][c.X])

\* C19 witness: more pellets were requested than there are candidates, and
\* every candidate took one.
C19_Witness ==
  /\ got.op = "placePowerPellets"
  /\ got.requested > Cardinality(PelletCells(got.items))
  /\ Len(got.locs) = Cardinality(PelletCells(got.items))
  /\ Len(got.locs) >= 3

\* minRadius + (maxRadius - minRadius) * intensity, truncated
Interpolated(lit) ==
  minFloorVisibilityRadius
    + ((FullVisibilityRadius - minFloorVisibilityRadius) * lit) \div MaxLight

InRadiusRange(r) == minFloorVisibilityRadius <= r /\ r <= FullVisibilityRadius

\* C20 as stated: in crazy mode the radius given to a floor is the
\* interpolated one under the night option 'real', minRadius under 'always'
\* and maxRadius under 'never', whatever the floor's index, and lies within
\* [minRadius, maxRadius].
C20_RadiusByNightOption ==
  (got.op = "setFloorVisibility" /\ got.GameMode = ModeCrazy) =>
    /\ got.NightOption = "real" => got.VisibilityRadius = Interpolated(got.lit)
    /\ got.NightOption = "always" => got.VisibilityRadius = minFloorVisibilityRadius
    /\ got.NightOption = "never" => got.VisibilityRadius = FullVisibilityRadius
    /\ InRadiusRange(got.VisibilityRadius)

\* C20: in crazy mode a floor of index >= 0 gets the interpolated radius under
\* 'real', minRadius under 'always' and maxRadius under 'never'; a floor of
\* index < 0 gets minRadius under every night option; in the other game modes
\* every floor gets maxRadius; the radius always lies within
\* [minRadius, maxRadius].
C20_RadiusByNightOptionAndIndex ==
  got.op = "setFloorVisibility" =>
    /\ (got.GameMode = ModeCrazy /\ got.Index >= 0) =>
         /\ got.NightOption = "real" =>
              got.VisibilityRadius = Interpolated(got.lit)
         /\ got.NightOption = "always" =>
              got.VisibilityRadius = minFloorVisibilityRadius
         /\ got.NightOption = "never" =>
              got.VisibilityRadius = FullVisibilityRadius
    /\ (got.GameMode = ModeCrazy /\ got.Index < 0) =>
         got.VisibilityRadius = minFloorVisibilityRadius
    /\ got.GameMode # ModeCrazy => got.VisibilityRadius = FullVisibilityRadius
    /\ InRadiusRange(got.VisibilityRadius)

\* C20 witness: an upper floor of crazy mode under 'real' at twilight, its
\* radius strictly between the two ends and cut down by the truncation.
C20_Witness ==
  /\ got.op = "setFloorVisibility"
  /\ got.GameMode = ModeCrazy /\ got.Index >= 0 /\ got.NightOption = "real"
  /\ got.VisibilityRadius > minFloorVisibilityRadius
  /\ got.VisibilityRadius < FullVisibilityRadius
  /\ ((FullVisibilityRadius - minFloorVisibilityRadius) * got.lit) % MaxLight # 0

\* some ghost of the play screen is on another cell after the step
GhostMoved ==
  SamePlay /\ \E i \in GhostIds : play'.ghosts[i].position # play.ghosts[i].position

\* the step handles a ghost tick message
TickHandled == ticksDue'["GhostTick"] = ticksDue["GhostTick"] - 1 /\ now' = now

\* the step handles a key press
KeyHandled == plan' # plan /\ now' = now

\* C21: a ghost changes cell only in the handling of a ghost tick message, and
\* only when the current ghost tick interval has passed since the time
\* recorded for the last move; the move records its own time, and the time
\* recorded never goes back, so two consecutive moves are at least that
\* interval apart however many tick messages are pending; the handling of a
\* key press moves no ghost.
C21_MovesOncePerInterval ==
  [][/\ GhostMoved =>
          /\ TickHandled
          /\ now - play.lastGhostMove >= play'.ghostTickInterval
          /\ play'.lastGhostMove = now
     /\ play.ghosts # <<>> => play'.lastGhostMove >= play.lastGhostMove
     /\ KeyHandled => ~GhostMoved]_vars

\* C21 witness: the ghosts have moved at this very time, a ghost is off the
\* cell it was placed on, and a further tick message is still to be handled.
C21_Witness ==
  /\ status = "gameplay"
  /\ play.ghosts # <<>>
  /\ play.lastGhostMove = now
  /\ \E i \in GhostIds : play.steps[i].left.position # play.steps[i].from
  /\ ticksDue["GhostTick"] > 0

\* fractions a and b are the same number
SameFrac(a, b) == a.num * b.den = b.num * a.den

\* C22: Intensity returns a value of [0, 1]; it is 0.0 when the timezone
\* cannot be loaded; on a day that has dawn and dusk it is 0 before dawn and
\* after dusk, 1 between sunrise and sunset, exactly 1.0 at local noon and
\* exactly 0.0 at local midnight, and a linear ramp between dawn and sunrise
\* and between sunset and dusk; on a day without dawn or dusk it is 1.0 if the
\* noon altitude exceeds -6 degrees and 0.0 otherwise.
C22_IntensityByDayPhase ==
  got.op = "Intensity" =>
    LET r       == got.ret
        t       == got.now
        ev      == got.events
        dawn    == ev.dawn.at.min
        sunrise == ev.sunrise.at.min
        sunset  == ev.sunset.at.min
        dusk    == ev.dusk.at.min
        risen   == /\ ev.sunrise.ok /\ ev.sunset.ok
                   /\ dawn <= sunrise /\ sunrise <= sunset /\ sunset <= dusk
    IN  /\ r.den > 0 /\ 0 <= r.num /\ r.num <= r.den
        /\ ~got.tzOk => r.num = 0
        /\ (got.tzOk /\ ev.dawn.ok /\ ev.dusk.ok) =>
             /\ (t < dawn \/ t >= dusk) => r.num = 0
             /\ (risen /\ sunrise <= t /\ t < sunset) => r.num = r.den
             /\ t = NoonMinute => r.num = r.den
             /\ t = 0 => r.num = 0
             /\ (risen /\ dawn <= t /\ t < sunrise) =>
                  SameFrac(r, Frac(t - dawn, sunrise - dawn))
             /\ (risen /\ sunset <= t /\ t < dusk) =>
                  SameFrac(r, Frac(dusk - t, dusk - sunset))
        /\ (got.tzOk /\ ~(ev.dawn.ok /\ ev.dusk.ok)) =>
             r.num = (IF got.sun.noon > CivilTwilight THEN r.den ELSE 0)

\* goroutine g comes to the cache test in this step
Entering(g) == geoip.calls[g].pc = "waiting" /\ geoip'.calls[g].pc # "waiting"

\* the call of g returns in this step
Returning(g) == geoip.calls[g].pc # "idle" /\ geoip'.calls[g].pc = "idle"

\* the age of the cached entry
CacheAge == geoip.clock - geoip.cacheTime

InFlightRequests(c) == {g \in Callers : c.calls[g].pc = "requesting"}

\* C23: a call that finds an entry no older than the TTL returns that entry
\* and issues no request; a call that finds an entry older than the TTL
\* issues a request, and when the request succeeds its LocationInfo, a new
\* one, becomes the cached value, stamped with the time of the response, and
\* is what the call returns; at most one request is in flight.
C23_CacheServesUntilExpiry ==
  [][/\ \A g \in Callers :
          /\ (Entering(g) /\ geoip.cache # 0 /\ CacheAge <= cacheTTL) =>
               /\ Returning(g)
               /\ geoip'.calls[g].info = geoip.cache /\ ~geoip'.calls[g].err
               /\ geoip'.requests = geoip.requests
               /\ geoip'.cache = geoip.cache /\ geoip'.cacheTime = geoip.cacheTime
          /\ (Entering(g) /\ geoip.cache # 0 /\ CacheAge > cacheTTL) =>
               /\ geoip'.requests = geoip.requests + 1
               /\ geoip'.calls[g].pc = "requesting"
          /\ (Returning(g) /\ geoip'.calls[g].requested /\ ~geoip'.calls[g].err) =>
               /\ geoip'.cache = geoip'.calls[g].info
               /\ geoip'.cache # geoip.cache
               /\ geoip'.cacheTime = geoip.clock
     /\ Cardinality(InFlightRequests(geoip')) <= 1]_vars

\* C23 witness: the entry stored first has expired and been replaced, one
\* goroutine has been served the new entry from the cache while it was as old
\* as the TTL allows, and the other waits for the mutex.
C23_Witness ==
  /\ geoip.cache >= 2
  /\ CacheAge = cacheTTL
  /\ \E g, h \in Callers :
       /\ geoip.calls[g].pc = "idle" /\ ~geoip.calls[g].requested
       /\ geoip.calls[g].info = geoip.cache
       /\ geoip.calls[h].pc = "waiting"

\* the response of the last request
LastKind(c) == c.kinds[Len(c.kinds)]

\* C24: a lookup that fails returns nil with an error and leaves the cached
\* value and its timestamp as they were; the cached value, and every value a
\* call returns, is the LocationInfo of a request that succeeded.
C24_FailureLeavesCache ==
  [][\A g \in Callers :
       /\ (Returning(g) /\ geoip'.calls[g].requested /\ LastKind(geoip') # "ok") =>
            /\ geoip'.calls[g].info = 0 /\ geoip'.calls[g].err
            /\ geoip'.cache = geoip.cache /\ geoip'.cacheTime = geoip.cacheTime
       /\ geoip'.cache # 0 => geoip'.kinds[geoip'.cache] = "ok"
       /\ geoip'.calls[g].info # 0 => geoip'.kinds[geoip'.calls[g].info] = "ok"]_vars

\* C24 witness: after a lookup has filled the cache, a lookup has failed for
\* an invalid timezone, and a call has then been served the cached value.
C24_Witness ==
  /\ geoip.cache # 0
  /\ \E i \in DOMAIN geoip.kinds : i > geoip.cache /\ geoip.kinds[i] = "badtimezone"
  /\ \E g \in Callers :
       /\ geoip.calls[g].pc = "idle" /\ ~geoip.calls[g].requested
       /\ geoip.calls[g].info = geoip.cache

\* the controllers of sample n that are in the mixer and not drained
Live(m, n) == {c \in m.mix : m.ctrls[c].name = n /\ m.ctrls[c].live}

\* C25: however Play, PlayLoop, StopListed and StopAll interleave, no sample
\* has more than one live controller in the mixer; once a sample is started
\* its only live controller is the new one; once StopListed or StopAll has
\* returned, the samples it stopped have no live controller.
C25_OneLiveController ==
  [][/\ \A n \in Samples : Cardinality(Live(sound', n)) <= 1
     /\ (sound'.last.op = "Play" /\ sound' # sound) =>
          \A n \in sound'.last.names : Live(sound', n) = {Len(sound'.ctrls)}
     /\ (sound'.last.op \in {"StopListed", "StopAll"} /\ sound' # sound) =>
          \A n \in sound'.last.names : Live(sound', n) = {}]_vars

\* C25 witness: a sample started while it was playing: its earlier controller
\* is drained and still in the mixer, beside the live one, while the other
\* sample plays as well.
C25_Witness ==
  \E n, o \in Samples :
    /\ n # o
    /\ Cardinality(Live(sound, n)) = 1 /\ Cardinality(Live(sound, o)) = 1
    /\ \E c \in sound.mix : sound.ctrls[c].name = n /\ ~sound.ctrls[c].live

\* C26: the ghost tick interval of floor i is max(400 ms, 500 ms - 10 ms * |i|),
\* is never below 400 ms nor above 500 ms, and no floor further from floor 0
\* has a longer one.
C26_IntervalByDepth ==
  got.op = "ghostInterval" =>
    LET i == got.floor
        d == IF i < 0 THEN 0 - i ELSE i
    IN  /\ got.ret = (IF 500 - 10 * d < 400 THEN 400 ELSE 500 - 10 * d)
        /\ 400 <= got.ret /\ got.ret <= 500
        /\ \A j \in (0 - MaxDepth) .. MaxDepth :
             (j >= d \/ 0 - j >= d) => ghostInterval(j) <= got.ret

\* C26 witness: a floor below floor 0, deep enough for the minimum to apply.
C26_Witness ==
  /\ got.op = "ghostInterval"
  /\ got.floor < 0 /\ 500 + 10 * got.floor < 400
  /\ got.ret = 400

\* the turn of ghost i in the ghost tick this step handles: the ghost as its
\* turn found it and left it
Found(i) == play'.steps[i].found

LeftAs(i) == play'.steps[i].left

\* where ghost j stands when ghost i takes its turn: the ghosts move in order
StandsAt(i, j) ==
  IF j < i THEN play'.steps[j].left.position ELSE play'.steps[j].found.position

\* a move of ghost i in direction d is legal: the cell is in the grid, is no
\* wall of either kind, and holds no other ghost
Legal(i, d) ==
  LET p == moveIn(Found(i).position, d)
  IN  /\ InBounds(p.X, p.Y)
      /\ cache[floor].Items[p.Y][p.X] \notin {"Wall", "CrumblingWall"}
      /\ \A j \in GhostIds \ {i} : StandsAt(i, j) # p

Forward(i) ==
  {d \in Facings : d # oppositeDirection(Found(i).direction) /\ Legal(i, d)}

\* the moves open to ghost i: the legal ones that do not reverse it, or, when
\* there is none, the legal ones
Open(i) == IF Forward(i) # {} THEN Forward(i) ELSE {d \in Facings : Legal(i, d)}

\* the target of ghost i on a directed step
TargetOf(i) ==
  CASE Found(i).state = "Eaten" -> Found(i).home
    [] Found(i).state \in {"Chase", "Scatter"} ->
         targetPos([j \in GhostIds |-> Found(j)], i, haunteed.position,
                   haunteed.direction, play'.steps[Curly].from)
    [] OTHER -> exitTarget

\* ghost i has taken one step, in direction d
Stepped(i, d) ==
  /\ LeftAs(i).direction = d
  /\ LeftAs(i).position = moveIn(Found(i).position, d)

\* C27: a ghost whose turn calls for a move stays put only if no move is
\* legal; otherwise it takes one step, a legal one that does not reverse it if
\* there is any and a legal one if there is none; on a directed step no move
\* open to it ends nearer the target than the one it takes.
C27_BestForwardMove ==
  [][GhostsTicked =>
       \A i \in GhostIds :
         play'.steps[i].tried =>
           IF Open(i) = {} THEN LeftAs(i).position = Found(i).position
           ELSE \E d \in Open(i) :
                  /\ Stepped(i, d)
                  /\ Found(i).state # "Frightened" =>
                       \A e \in Open(i) :
                         manhattan(moveIn(Found(i).position, d), TargetOf(i))
                           <= manhattan(moveIn(Found(i).position, e), TargetOf(i))]_vars

\* C27 witness: on the last ghost tick a ghost had to reverse, no other move
\* being legal, and another, with two moves open, took the one nearer its
\* target.
C27_Witness ==
  /\ status = "gameplay" /\ play.ghosts # <<>>
  /\ \E i \in GhostIds :
       /\ play.steps[i].tried
       /\ play.steps[i].left.position # play.steps[i].from
       /\ play.steps[i].left.direction = oppositeDirection(play.steps[i].found.direction)
  /\ \E i \in GhostIds :
       /\ play.steps[i].tried /\ play.steps[i].found.state # "Frightened"
       /\ play.steps[i].left.position # play.steps[i].from
       /\ Len(validDirectionsExcludingOpposite(
                [j \in GhostIds |-> play.steps[j].found], i, cache[floor])) >= 2

\* the scatter anchor of ghost i
Anchor(i) == scatterTargetOf(GhostTypes[i])

\* the cell ghost i stands on is the den's exit or next to it in its column
ByExit(p) ==
  /\ p.X = exitTarget.X
  /\ p.Y - exitTarget.Y \in {-1, 0, 1}

\* C28: on a ghost tick that the controller handles in its Scatter phase, every
\* ghost in Chase or Scatter whose turn calls for a move steers by its own
\* scatter anchor: that is its target, and no move open to it ends nearer the
\* anchor than the step it takes.
C28_ScatterPhaseTargetsAnchor ==
  [][(GhostsTicked /\ phaseState(play'.gc.modeIndex) = "Scatter") =>
       \A i \in GhostIds :
         (play'.steps[i].tried /\ Found(i).state \in {"Chase", "Scatter"}) =>
           /\ TargetOf(i) = Anchor(i)
           /\ \A e \in Open(i) :
                manhattan(LeftAs(i).position, Anchor(i))
                  <= manhattan(moveIn(Found(i).position, e), Anchor(i))]_vars

\* C28 witness: in the Scatter phase a ghost that stood by the den's exit, out
\* of the Exiting state, has stepped away from the player's side toward its
\* anchor.
C28_Witness ==
  /\ status = "gameplay" /\ play.ghosts # <<>>
  /\ phaseState(play.gc.modeIndex) = "Scatter"
  /\ \E i \in GhostIds :
       /\ play.steps[i].tried
       /\ play.steps[i].found.state = "Scatter"
       /\ ByExit(play.steps[i].found.position)
       /\ play.steps[i].left.position # play.steps[i].found.position
       /\ manhattan(play.steps[i].left.position, Anchor(i))
            < manhattan(play.steps[i].found.position, Anchor(i))
       /\ manhattan(play.steps[i].left.position, haunteed.position)
            > manhattan(play.steps[i].found.position, haunteed.position)

\* the cell n steps from p along facing d, by coordinates
Ahead(p, d, n) ==
  CASE d = "Up"    -> Pos(p.X, p.Y - n)
    [] d = "Down"  -> Pos(p.X, p.Y + n)
    [] d = "Left"  -> Pos(p.X - n, p.Y)
    [] d = "Right" -> Pos(p.X + n, p.Y)
    [] OTHER       -> p

\* the Chase target of the ghost of archetype t standing on cell at, the
\* player on cell pl facing d and Curly on cell cu
PursuitTarget(t, at, pl, d, cu) ==
  CASE t = "Curly"  -> pl
    [] t = "Fluffy" -> Ahead(pl, d, 4)
    [] t = "Lofty"  -> Pos(cu.X + 2 * (Ahead(pl, d, 2).X - cu.X),
                           cu.Y + 2 * (Ahead(pl, d, 2).Y - cu.Y))
    [] OTHER        -> IF manhattan(at, pl) > 8 THEN pl
                       ELSE scatterTargetOf(t)

\* C29: on a ghost tick every ghost in Chase whose turn calls for a move
\* steers by the target of its archetype: no move open to it ends nearer that
\* target than the step it takes.  Curly's position is the one it has when
\* the ghosts' turns begin.
C29_PursuitTargets ==
  [][GhostsTicked =>
       \A i \in GhostIds :
         (play'.steps[i].tried /\ Found(i).state = "Chase") =>
           LET t == PursuitTarget(GhostTypes[i], Found(i).position,
                                  haunteed.position, haunteed.direction,
                                  play'.steps[Curly].from)
           IN  \A e \in Open(i) :
                 manhattan(LeftAs(i).position, t)
                   <= manhattan(moveIn(Found(i).position, e), t)]_vars

\* C29 witness: on the last ghost tick Lofty, in Chase with its target off the
\* player's cell and two moves open, took a step.
C29_Witness ==
  /\ status = "gameplay" /\ play.ghosts # <<>>
  /\ \E i \in GhostIds :
       /\ GhostTypes[i] = "Lofty"
       /\ play.steps[i].tried
       /\ play.steps[i].found.state = "Chase"
       /\ play.steps[i].left.position # play.steps[i].found.position
       /\ PursuitTarget("Lofty", play.steps[i].found.position, haunteed.position,
                        haunteed.direction, play.steps[Curly].from)
            # haunteed.position
       /\ Len(validDirectionsExcludingOpposite(
                [j \in GhostIds |-> play.steps[j].found], i, cache[floor])) >= 2

\* an Open cell of the maze the grid was made of
OpenCell(m, x, y) == InBounds(x, y) /\ m.cells[y][x] # "Wall"

\* a Wall in the interior of the grid with Open cells on both sides of it
\* along the vertical or along the horizontal axis
Shortcut(m, items, c) ==
  /\ c.X >= 1 /\ c.X <= Width - 2 /\ c.Y >= 1 /\ c.Y <= Height - 2
  /\ items[c.Y][c.X] = "Wall"
  /\ \/ OpenCell(m, c.X, c.Y - 1) /\ OpenCell(m, c.X, c.Y + 1)
     \/ OpenCell(m, c.X - 1, c.Y) /\ OpenCell(m, c.X + 1, c.Y)

Converted(c) == {p \in Cells : c.ret[p.Y][p.X] # c.items[p.Y][p.X]}

\* C30: placeCrumblingWalls changes min(requested, number of candidates)
\* cells of the grid; each of them was a Wall in the interior with Open cells
\* on both sides along one axis, and is a CrumblingWall afterwards.
C30_CrumblingWallsPlaced ==
  got.op = "placeCrumblingWalls" =>
    LET cands == {p \in Cells : Shortcut(got.maze, got.items, p)}
        n     == IF got.requested < Cardinality(cands) THEN got.requested
                 ELSE Cardinality(cands)
    IN  /\ Cardinality(Converted(got)) = n
        /\ \A p \in Converted(got) :
             p \in cands /\ got.ret[p.Y][p.X] = "CrumblingWall"

\* C30 witness: fewer walls were requested than there are candidates, and that
\* many were converted, some candidate staying a Wall.
C30_Witness ==
  /\ got.op = "placeCrumblingWalls"
  /\ got.requested >= 2
  /\ Cardinality(Converted(got)) = got.requested
  /\ \E p \in Cells :
       Shortcut(got.maze, got.items, p) /\ got.ret[p.Y][p.X] = "Wall"

\* the tile of the current floor on the player's cell
TileUnderPlayer ==
  cache[floor].Items[haunteed.position.Y][haunteed.position.X]

\* the player stands in the grid, on no Wall and on no CrumblingWall
StandsClear ==
  /\ InBounds(haunteed.position.X, haunteed.position.Y)
  /\ TileUnderPlayer \notin {"Wall", "CrumblingWall"}

\* the cells of the current floor that hold a CrumblingWall before the step
\* and none after it
BrokenNow ==
  {c \in Cells : /\ cache[floor].Items[c.Y][c.X] = "CrumblingWall"
                 /\ cache'[floor].Items[c.Y][c.X] # "CrumblingWall"}

\* C31: the player always stands in the grid on a cell that is neither a Wall
\* nor a CrumblingWall; on the play screen a CrumblingWall of the floor goes
\* only in the handling of a key press made with power mode on, and is then
\* the cell the player has stepped onto.
C31_PlayerOffWalls ==
  /\ []StandsClear
  /\ [][(SamePlay /\ floor' = floor) =>
          \A c \in BrokenNow :
            /\ KeyHandled
            /\ play.powerMode
            /\ haunteed'.position = c
            /\ haunteed.position # c]_vars

\* C31 witness: with power mode off the player faces a CrumblingWall next to
\* it, having pressed the key toward it, and stands where it stood.
C31_Witness ==
  /\ status = "gameplay" /\ play.ghosts # <<>>
  /\ ~play.powerMode
  /\ play.lastKeyTime = now
  /\ haunteed.direction # "No"
  /\ LET p == moveIn(haunteed.position, haunteed.direction)
     IN  InBounds(p.X, p.Y) /\ cache[floor].Items[p.Y][p.X] = "CrumblingWall"

\* the step costs the player a life other than the one the crumbs cost
LifeLost ==
  /\ haunteed'.lives < haunteed.lives
  /\ play'.gotCrumbs = play.gotCrumbs

\* C32: from the update that costs the player a life until the respawn is over
\* and the play screen is back, no further life is lost, whichever of the
\* pending ghost tick, key and Respawn messages is handled first.
C32_OneLifePerCapture ==
  [][(Captured \/ status = "respawning") => ~LifeLost]_vars

\* C33: while the play model's power mode is on every ghost is Frightened or
\* Eaten, and while it is off no ghost is Frightened; an update that leaves
\* power mode on costs the player no life to a ghost.
C33_PowerModeStates ==
  /\ [](play.ghosts # <<>> =>
          \A i \in GhostIds :
            /\ play.powerMode => play.ghosts[i].state \in {"Frightened", "Eaten"}
            /\ ~play.powerMode => play.ghosts[i].state # "Frightened")
  /\ [][(SamePlay /\ play'.powerMode) => ~LifeLost]_vars

\* C33 witness: power mode is on, a captured ghost waits at home as Eaten,
\* another is Frightened, and the player has lost no life.
C33_Witness ==
  /\ status = "gameplay" /\ play.ghosts # <<>>
  /\ play.powerMode
  /\ \E i \in GhostIds :
       play.ghosts[i].state = "Eaten" /\ play.ghosts[i].position = play.ghosts[i].home
  /\ \E i \in GhostIds : play.ghosts[i].state = "Frightened"
  /\ haunteed.lives = defaultLives

\* C34: the ghosts of the play model stand on pairwise distinct cells, from
\* their placement on.
C34_GhostsApart ==
  \A i, j \in DOMAIN play.ghosts :
    i # j => play.ghosts[i].position # play.ghosts[j].position

\* the messages of a capture that are waiting to be handled
CaptureMsgs == {m \in msgs : m.type \in {"Respawn", "GameOver"}}

\* C35: a Respawn or GameOver message of the play model stays pending until a
\* step that handles it shows the respawning screen or the game-over screen,
\* also when the boss key screen is opened before it is delivered.
C35_CaptureMsgNotLost ==
  [][\A m \in CaptureMsgs : m \in msgs' \/ status' \in {"respawning", "gameOver"}]_vars

\* the step handles a NextFloorMsg or PrevFloorMsg of the play screen
FloorChanged == status = "gameplay" /\ status' = "floorIntro"

\* C36: whenever floors i and i + 1 are both in the floor cache, the End of
\* floor i is the Start of floor i + 1; a floor change to a floor that is in
\* the cache returns the cached floor and leaves the cache as it is.
C36_FloorsConnect ==
  /\ [](\A i \in DOMAIN cache :
          (i + 1) \in DOMAIN cache => cache[i].end = cache[i + 1].start)
  /\ [][(FloorChanged /\ floor' \in DOMAIN cache) =>
          /\ cache' = cache
          /\ got'.ret = cache[floor']]_vars

\* C36 witness: the player is back on floor 0 after a visit to the floor
\* below, and the floor change that brought it back found floor 0 in the
\* cache.
C36_Witness ==
  /\ floor = 0
  /\ (0 - 1) \in DOMAIN cache
  /\ got.op = "getFloor" /\ got.index = 0
  /\ got.prev.op = "getFloor" /\ got.prev.index = 0 - 1
  /\ got.ret.start = cache[0 - 1].end

\* what is left of the game timers of the play screen: of the power mode, of
\* the release delay of each ghost that is still held, of the current phase
RemainingTime ==
  [power   |-> IF play.powerMode THEN play.powerModeUntil - now ELSE 0,
   release |-> [i \in GhostIds |->
                  IF now < play.ghosts[i].releaseTime
                    THEN play.ghosts[i].releaseTime - now ELSE 0],
   phase   |-> IF play.gc.modeIndex < LastPhase
                 THEN phaseDuration(play.gc.modeIndex) * 1000 - (now - play.gc.modeTimer)
                 ELSE 0]

\* C38: while the play screen is paused, up to and including the step that
\* resumes it, the remaining power-mode time, the remaining release delay of
\* every ghost and the remaining time of the current phase stay as they were
\* when the game was paused.
C38_PauseStopsTimers ==
  [][(status = "gameplay" /\ status' = "gameplay" /\ play.paused)
       => RemainingTime' = RemainingTime]_vars

\* the floor change messages this step has put in flight
FloorRequests == {m \in msgs' \ msgs : m.type \in {"PrevFloor", "NextFloor"}}

\* the tile of the current floor under the player after the step
TileLeftOn == cache'[floor'].Items[haunteed'.position.Y][haunteed'.position.X]

\* the step shows the play screen with a new play model
Arrived == status # "gameplay" /\ status' = "gameplay"

\* C39: a floor change is requested only by the handling of a key press on
\* the play screen that leaves the player on the Start cell (previous floor)
\* or on the End cell (next floor); the player arrives on a floor with the
\* arrival flag set, and no key press handled while the flag is set, the
\* first one after the arrival among them, requests a floor change.
C39_FloorChangeByKeyOnly ==
  /\ [][\A m \in FloorRequests :
          /\ KeyHandled
          /\ status = "gameplay"
          /\ ~play.justArrived
          /\ TileLeftOn = (IF m.type = "PrevFloor" THEN "Start" ELSE "End")]_vars
  /\ [][Arrived => play'.justArrived]_vars

\* C39 witness: the first key press after the arrival has just been handled
\* and has left the player on the Start or End cell it arrived on, and no
\* floor change is in flight.
C39_Witness ==
  /\ status = "gameplay"
  /\ ~play.justArrived /\ ~play.paused
  /\ play.lastKeyTime = now
  /\ haunteed.position \in {cache[floor].start, cache[floor].end}
  /\ \A m \in msgs : m.type \notin {"PrevFloor", "NextFloor"}
  /\ play.ghosts # <<>>

\* a ghost tick of the play screen has fired or is about to
GhostTickRunning == ticksDue["GhostTick"] + ticksNext["GhostTick"] > 0

\* quanta left for the last intro tick and the timeout message to be handled
IntroSlack == 3

\* the floor intro is shown and its period ends within the time explored
IntroShown == status = "floorIntro" /\ nextUntil + IntroSlack * Quantum <= MaxTime

\* C40: once a NextFloorMsg or PrevFloorMsg has put up the floor intro, the
\* intro times out and the play screen is shown again, on the floor the
\* handler chose, with a new play model and a ghost tick started; no key
\* handled by the intro starts anything, and the step that puts up the intro
\* starts no tick.
C40_FloorIntroCompletes ==
  /\ IntroShown ~> (status = "gameplay" /\ play.justArrived /\ GhostTickRunning)
  /\ [][status = "floorIntro" =>
          /\ floor' = floor
          /\ KeyHandled => cmd' = NoCmd /\ status' = "floorIntro"
          /\ status' # "floorIntro" =>
                /\ status' = "gameplay"
                /\ now > nextUntil
                /\ play' = resetPlayModel(cache, seeds, floor)]_vars
  /\ [][FloorChanged => cmd' = NoCmd /\ ticksNext' = ticksNext]_vars

\* C40 witness: the intro of the floor below has timed out, and the play
\* screen is shown on that floor with a new play model and a ghost tick
\* started.
C40_Witness ==
  /\ status = "gameplay"
  /\ floor = 0 - 1
  /\ got.op = "getFloor" /\ got.index = floor
  /\ now > nextUntil
  /\ play.justArrived
  /\ haunteed.position = cache[floor].end
  /\ GhostTickRunning

====
